---- MODULE Spec2Model ----
(***************************************************************************)
(* flexiManage: tunnel lifecycle and device-modification orchestration.    *)
(*                                                                         *)
(* The document store is modelled by its collections (tunnels, tunnelids,  *)
(* devices), the per-device job channel by the list of queued jobs, and    *)
(* every asynchronous function by a process whose steps are the store and  *)
(* queue operations it awaits.  One organization is modelled; every query  *)
(* of the source carries the organization, so the collections below are    *)
(* that organization's documents.                                          *)
(*                                                                         *)
(* The specifications share the variables:                                 *)
(*   SpecAlloc     concurrent tunnel creation (deviceLogic/tunnels.js)     *)
(*   SpecCounter   the same, with database errors of the counter update    *)
(*   SpecRecycle   tunnel creation with concurrent deletion                *)
(*   SpecRepeat    creation requests in turn, and deletion                 *)
(*   SpecBatch     one creation request for three devices, and deletion    *)
(*   SpecComplete  creation and the callbacks of the add-tunnel jobs       *)
(*   SpecStale     creation, deletion and callbacks of earlier jobs        *)
(*   SpecModify    device modification (DevicesService, modifyDevice.js)   *)
(*   SpecTeardown  address changes on both endpoints of one tunnel         *)
(*   SpecInterface interface edits of one device, one request at a time    *)
(*   SpecEndpoints edits of both endpoint devices, one request at a time   *)
(*   SpecRemoval   the operations that deactivate a tunnel                 *)
(*   SpecEvents    reconciliation pass (deviceLogic/events.js)             *)
(*   SpecOnLink    the passes with a route that names its interface        *)
(*   SpecShared    tunnel creation during the reconciliation passes        *)
(*   SpecRelease   the passes and the periodic release task, with fairness *)
(***************************************************************************)
EXTENDS Integers, Sequences, FiniteSets, TLC

VARIABLES
  tunnels,      \* tunnels collection: sequence of documents, index = _id
  tunnelIds,    \* tunnelids collection: nextAvailID of the org, or NoDoc
  devices,      \* devices collection: device id -> document
  jobs,         \* jobs submitted to the device queues, in submission order
  creq,         \* tunnel-creation requests (applyTunnelAdd), with promises
  dreq,         \* tunnel-deletion calls (oneTunnelDel)
  puts,         \* device-modification requests (devicesIdPUT)
  limiter,      \* public-address limiter: key -> [points, blocked]
  pass,         \* the reconciliation pass in progress (Events instance)
  notifications \* notification records sent, in order

vars == <<tunnels, tunnelIds, devices, jobs, creq, dreq, puts, limiter, pass,
          notifications>>

(***************************************************************************)
(* Bounds of the model and constants of the program                        *)
(***************************************************************************)
NumRequests == 2      \* concurrent tunnel-creation requests
NumDeleters == 1      \* concurrent tunnel-deletion calls
MaxTunnels == 15000   \* tunnels.js:576  nextAvailID: { $gte: 0, $lt: 15000 }

NoDoc == 0 - 1        \* no document / null
None == "none"

Devices == {"d1", "d2", "d3", "d4"}
Reqs == 1..NumRequests
Dels == 1..NumDeleters

\* versions.router of the devices: d1, d2 and d4 run the same router version,
\* d3 another major version
RouterVersion(d) == IF d = "d3" THEN 6 ELSE 5

\* getMajorVersion(device.versions.agent): d2 runs an agent of major version 4
AgentVersion(d) == IF d = "d2" THEN 4 ELSE 5

\* versioning.routerVersionsCompatible(verA, verB)
routerVersionsCompatible(verA, verB) == verA = verB

\* The WAN interface of a device (each modelled device has one assigned WAN
\* interface with a gateway and no path labels); its _id is the device's name.
WanOf(d) == d

(***************************************************************************)
(* Tunnel documents                                                        *)
(***************************************************************************)
\* A tunnel document as the schema creates it on an upsert insert
NewTunnelDoc(n) ==
  [num |-> n, isActive |-> FALSE, isPending |-> FALSE, pendingReason |-> "",
   deviceA |-> None, interfaceA |-> None, deviceB |-> None, interfaceB |-> None,
   peer |-> FALSE, pathlabel |-> None,
   deviceAconf |-> FALSE, deviceBconf |-> FALSE,
   pendingTunnelModification |-> FALSE, pendingType |-> ""]

TunnelIdxs == 1..Len(tunnels)

\* tunnelsModel.find / findOne by { org, num }
DocsWithNum(n) == {i \in TunnelIdxs : tunnels[i].num = n}

\* getTunnel(org, pathLabel, wanIfcA, wanIfcB): active site-to-site tunnels of
\* the interface pair, in either orientation
getTunnel(label, ifcA, ifcB) ==
  {i \in TunnelIdxs :
     /\ tunnels[i].isActive
     /\ tunnels[i].pathlabel = label
     /\ ~tunnels[i].peer
     /\ \/ tunnels[i].interfaceA = ifcA /\ tunnels[i].interfaceB = ifcB
        \/ tunnels[i].interfaceB = ifcA /\ tunnels[i].interfaceA = ifcB}

(***************************************************************************)
(* Jobs                                                                    *)
(***************************************************************************)
\* deviceQueues.addJob(machineId, ..., { method, data }): the response data
\* the callbacks get
TunnelJob(method, dev, n, target) ==
  [method |-> method, device |-> dev, tunnelId |-> n, target |-> target,
   state |-> "queued"]

\* queueTunnel(isAdd, ...): jobA, then jobB; `outcome` is what the queue did:
\* "ok", "failA" (the first addJob throws) or "failB" (the second throws)
QueueOutcomes == {"ok", "failA", "failB"}

queueTunnelJobs(isAdd, dA, dB, n, outcome) ==
  LET m == IF isAdd THEN "tunnels" ELSE "deltunnels"
      jA == TunnelJob(m, dA, n, "deviceAconf")
      jB == TunnelJob(m, dB, n, "deviceBconf")
  IN  CASE outcome = "ok"    -> <<jA, jB>>
        [] outcome = "failB" -> <<jA>>
        [] OTHER             -> << >>

(***************************************************************************)
(* Tunnel creation: applyTunnelAdd, handleTunnels, generateTunnelPromise,  *)
(* addTunnel, queueTunnel                                                  *)
(***************************************************************************)
DevOrder == <<"d1", "d2", "d3", "d4">>
AllPairs == << <<"d1", "d2">>, <<"d1", "d3">>, <<"d1", "d4">>, <<"d2", "d3">>,
               <<"d2", "d4">>, <<"d3", "d4">> >>

\* The device sets a creation request for one tunnel may select
DevSets == {S \in SUBSET {"d1", "d2", "d3"} : Cardinality(S) = 2}

\* The (deviceA, deviceB) pairs of handleTunnels' two nested loops over opDevices
PairsOf(S) == SelectSeq(AllPairs, LAMBDA p : p[1] \in S /\ p[2] \in S)

\* generateTunnelPromise, line 622: reject(new Error('Tunnel ID not found'))
ErrTunnelIdNotFound == "Tunnel ID not found"

ReasonMismatch == "Router version mismatch for some devices."
ReasonExists == "Some tunnels exist already."

PairReasonNoVersionCheck(p) ==
  IF getTunnel(None, WanOf(p[1]), WanOf(p[2])) # {} THEN ReasonExists ELSE None

\* handleTunnels, for one pair: the reason added, or None when a tunnel promise
\* is pushed for the pair
PairReason(p) ==
  IF ~routerVersionsCompatible(RouterVersion(p[1]), RouterVersion(p[2]))
    THEN ReasonMismatch
  ELSE IF getTunnel(None, WanOf(p[1]), WanOf(p[2])) # {}
    THEN ReasonExists
  ELSE None

NewPromise(p) ==
  [dA |-> p[1], dB |-> p[2], pc |-> "find", via |-> None, num |-> NoDoc,
   jobIds |-> {}]

\* The text of a result before its reasons: "No ... jobs added." (kind
\* "none"), "<added> of <of> ... jobs added." (kind "of"), "<added> ... jobs
\* added." (kind "count") or '' (kind "empty")
Message(kind, added, of) == [kind |-> kind, added |-> added, of |-> of]

IdleRequest == [pc |-> "idle", sel |-> {}, reasons |-> {}, proms |-> << >>,
                result |-> [ids |-> {}, status |-> None, noJobs |-> FALSE,
                            reasons |-> {}, message |-> Message(None, 0, 0)]]

\* applyTunnelAdd up to "Execute all promises": handleTunnels collects the
\* reasons and creates one promise per pair that passes the checks; the
\* executor of each promise has been started
StartRequest(r, S) ==
  /\ creq[r].pc = "idle"
  /\ \A q \in Reqs : q < r => creq[q].pc # "idle"
  /\ LET pairs == PairsOf(S)
         todo == SelectSeq(pairs, LAMBDA p : PairReason(p) = None)
     IN creq' = [creq EXCEPT ![r] =
          [@ EXCEPT !.pc = "running", !.sel = S,
                    !.reasons = {PairReason(pairs[i]) : i \in 1..Len(pairs)} \ {None},
                    !.proms = [i \in 1..Len(todo) |-> NewPromise(todo[i])]]]
  /\ UNCHANGED <<tunnels, tunnelIds, devices, jobs, dreq, puts, limiter, pass,
                 notifications>>

SetProm(r, i, rec) == [creq EXCEPT ![r].proms[i] = rec]

InactiveDocs == {k \in TunnelIdxs : ~tunnels[k].isActive}

\* The update of findOneAndUpdate({ isActive: false, org }, { isActive: true }):
\* "make sure other query doesn't find the same number"
ClaimInactiveNoFlip(k) == tunnels

ClaimInactive(k) == [tunnels EXCEPT ![k].isActive = TRUE]

\* generateTunnelPromise, lines 551-571: the search in the deleted tunnels
\* hands one inactive document to exactly one caller
FindInactive(r, i) ==
  /\ creq[r].pc = "running" /\ i \in DOMAIN creq[r].proms
  /\ creq[r].proms[i].pc = "find"
  /\ IF InactiveDocs # {}
       THEN \E k \in InactiveDocs :
              /\ tunnels' = ClaimInactive(k)
              /\ creq' = SetProm(r, i, [creq[r].proms[i] EXCEPT
                           !.pc = "add", !.via = "reuse", !.num = tunnels[k].num])
       ELSE /\ creq' = SetProm(r, i, [creq[r].proms[i] EXCEPT !.pc = "counter1"])
            /\ UNCHANGED tunnels
  /\ UNCHANGED <<tunnelIds, devices, jobs, dreq, puts, limiter, pass, notifications>>

CounterMatchesInclusive(c) == c # NoDoc /\ c >= 0 /\ c <= MaxTunnels

\* The filter of the counter update: nextAvailID: { $gte: 0, $lt: 15000 }
CounterMatches(c) == c # NoDoc /\ c >= 0 /\ c < MaxTunnels

\* tunnelIDsModel.findOneAndUpdate(..., { $inc: { nextAvailID: 1 } },
\* { new: true, upsert: true }), first and second try: the matching document is
\* incremented and its new value returned; with no matching document the
\* upsert goes on to insert one
CounterInc(r, i) ==
  /\ creq[r].pc = "running" /\ i \in DOMAIN creq[r].proms
  /\ creq[r].proms[i].pc \in {"counter1", "counter2"}
  /\ LET pr == creq[r].proms[i]
         try == IF pr.pc = "counter1" THEN "1" ELSE "2"
     IN IF CounterMatches(tunnelIds)
          THEN /\ tunnelIds' = tunnelIds + 1
               /\ creq' = SetProm(r, i, [pr EXCEPT !.pc = "add",
                             !.via = "counter" \o try, !.num = tunnelIds + 1])
          ELSE /\ creq' = SetProm(r, i, [pr EXCEPT !.pc = "insert" \o try])
               /\ UNCHANGED tunnelIds
  /\ UNCHANGED <<tunnels, devices, jobs, dreq, puts, limiter, pass, notifications>>

\* An upsert whose second conflict is retried as the first one is
CounterInsertRetry(r, i) ==
  /\ creq[r].pc = "running" /\ i \in DOMAIN creq[r].proms
  /\ creq[r].proms[i].pc \in {"insert1", "insert2"}
  /\ LET pr == creq[r].proms[i]
     IN IF tunnelIds = NoDoc
          THEN /\ tunnelIds' = 1
               /\ creq' = SetProm(r, i, [pr EXCEPT !.pc = "add", !.num = 1,
                     !.via = IF pr.pc = "insert1" THEN "counter1" ELSE "counter2"])
          ELSE /\ creq' = SetProm(r, i, [pr EXCEPT !.pc = "counter2"])
               /\ UNCHANGED tunnelIds
  /\ UNCHANGED <<tunnels, devices, jobs, dreq, puts, limiter, pass, notifications>>

\* The insert of the upsert: { org, nextAvailID: 1 }; org is a unique key, so
\* the insert fails with code 11000 when the org's document exists (it was
\* inserted meanwhile, or its counter is out of the filter's range).  The first
\* failure is retried (line 598), the second rejects the promise (line 622).
CounterInsert(r, i) ==
  /\ creq[r].pc = "running" /\ i \in DOMAIN creq[r].proms
  /\ creq[r].proms[i].pc \in {"insert1", "insert2"}
  /\ LET pr == creq[r].proms[i]
     IN IF tunnelIds = NoDoc
          THEN /\ tunnelIds' = 1
               /\ creq' = SetProm(r, i, [pr EXCEPT !.pc = "add", !.num = 1,
                     !.via = IF pr.pc = "insert1" THEN "counter1" ELSE "counter2"])
          ELSE /\ creq' = SetProm(r, i, [pr EXCEPT
                     !.pc = IF pr.pc = "insert1" THEN "counter2" ELSE "rejected"])
               /\ UNCHANGED tunnelIds
  /\ UNCHANGED <<tunnels, devices, jobs, dreq, puts, limiter, pass, notifications>>

\* generateTunnelPromise, lines 617-630: the counter update fails with an
\* error other than the conflict of the upsert (first try, "other error"), or
\* with any error at the second try: the promise is rejected
CounterError(r, i) ==
  /\ creq[r].pc = "running" /\ i \in DOMAIN creq[r].proms
  /\ creq[r].proms[i].pc \in {"counter1", "counter2"}
  /\ creq' = SetProm(r, i, [creq[r].proms[i] EXCEPT !.pc = "rejected"])
  /\ UNCHANGED <<tunnels, tunnelIds, devices, jobs, dreq, puts, limiter, pass,
                 notifications>>

\* addTunnel, lines 979-1001: findOneAndUpdate({ org, num }, {...},
\* { upsert: true, new: true })
UpsertTunnel(n, dA, dB) ==
  LET upd(doc) == [doc EXCEPT !.isActive = TRUE, !.deviceAconf = FALSE,
                     !.deviceBconf = FALSE, !.deviceA = dA,
                     !.interfaceA = WanOf(dA), !.deviceB = dB,
                     !.interfaceB = WanOf(dB), !.pathlabel = None,
                     !.peer = FALSE]
  IN IF DocsWithNum(n) # {}
       THEN LET k == CHOOSE x \in DocsWithNum(n) : \A y \in DocsWithNum(n) : x <= y
            IN [tunnels EXCEPT ![k] = upd(tunnels[k])]
       ELSE Append(tunnels, upd(NewTunnelDoc(n)))

AddTunnel(r, i) ==
  /\ creq[r].pc = "running" /\ i \in DOMAIN creq[r].proms
  /\ creq[r].proms[i].pc = "add"
  /\ LET pr == creq[r].proms[i]
     IN /\ tunnels' = UpsertTunnel(pr.num, pr.dA, pr.dB)
        /\ creq' = SetProm(r, i, [pr EXCEPT !.pc = "queue"])
  /\ UNCHANGED <<tunnelIds, devices, jobs, dreq, puts, limiter, pass, notifications>>

\* How the promise ends when addTunnel throws: the reuse path and the first
\* counter try end in a .catch that rejects (lines 632, 643); the second
\* counter try (line 610) has no .catch, so the promise is never settled
FailedPc(via) == IF via = "counter2" THEN "hung" ELSE "rejected"

\* addTunnel, lines 1033-1049: queueTunnel(true, ...), then resolve(tunnelJobs)
QueueAddJobs(r, i, outcome) ==
  /\ creq[r].pc = "running" /\ i \in DOMAIN creq[r].proms
  /\ creq[r].proms[i].pc = "queue"
  /\ LET pr == creq[r].proms[i]
         new == queueTunnelJobs(TRUE, pr.dA, pr.dB, pr.num, outcome)
     IN /\ jobs' = jobs \o new
        /\ creq' = SetProm(r, i, [pr EXCEPT
              !.pc = IF outcome = "ok" THEN "resolved" ELSE FailedPc(pr.via),
              !.jobIds = IF outcome = "ok"
                           THEN (Len(jobs) + 1)..(Len(jobs) + Len(new)) ELSE {}])
  /\ UNCHANGED <<tunnels, tunnelIds, devices, dreq, puts, limiter, pass,
                 notifications>>

Settled(pr) == pr.pc \in {"resolved", "rejected"}

\* applyTunnelAdd, lines 417-427: desired is mapped from the promises
\* (dbTasks), one element for each, and ids from the jobs of the fulfilled ones
CreateMessage(desired, ids) ==
  IF desired = 0 THEN Message("none", 0, 0)
  ELSE IF ids < desired THEN Message("of", ids, desired)
  ELSE Message("count", ids, desired)

\* applyTunnelAdd, lines 406-431: after Promise.allSettled; only the reasons
\* handleTunnels has collected are appended to the message
RequestResult(rq) ==
  LET n == Len(rq.proms)
      fulfilled == {i \in 1..n : rq.proms[i].pc = "resolved"}
      ids == UNION {rq.proms[i].jobIds : i \in fulfilled}
  IN [ids |-> ids,
      status |-> IF Cardinality(fulfilled) < n THEN "partially completed"
                 ELSE "completed",
      noJobs |-> (n = 0),
      reasons |-> rq.reasons,
      message |-> CreateMessage(n, Cardinality(ids))]

FinishRequest(r) ==
  /\ creq[r].pc = "running"
  /\ \A i \in DOMAIN creq[r].proms : Settled(creq[r].proms[i])
  /\ creq' = [creq EXCEPT ![r] = [@ EXCEPT !.pc = "done",
                                           !.result = RequestResult(creq[r])]]
  /\ UNCHANGED <<tunnels, tunnelIds, devices, jobs, dreq, puts, limiter, pass,
                 notifications>>

(***************************************************************************)
(* Tunnel parameters and device documents                                  *)
(***************************************************************************)
\* utils/tunnelUtils.generateTunnelParams(num): the loopback /31 pair of the
\* tunnel; addresses are numbers, ip1 even and ip2 = ip1 + 1
generateTunnelParams(n) == [ip1 |-> 2 * n, ip2 |-> 2 * n + 1]

\* Interface addresses; '' is an interface without an address
Addrs == {"10.0.0.1/24", "10.0.0.2/24", ""}

\* A device document: the WAN interface and the static routes are what
\* modifyDevice compares and what the events update
WanIfc(addr) ==
  [isAssigned |-> TRUE, type |-> "WAN", addr |-> addr, dhcp |-> "no",
   hasIpOnDevice |-> TRUE, PublicPort |-> 1, pathlabels |-> {}]

InitDevice(approved) ==
  [isApproved |-> approved, pendingDevModification |-> FALSE,
   wan |-> WanIfc("10.0.0.1/24"), staticroutes |-> {}, dhcp |-> {}]

\* A static route of a device through tunnel n
RouteVia(n) ==
  [gateway |-> generateTunnelParams(n).ip1, ifname |-> None,
   isPending |-> FALSE, pendingReason |-> ""]

\* The gateway of a static route that lies inside the subnet of the WAN
\* interface (the addresses of the model are all of 10.0.0.0/24; the loopback
\* addresses of the tunnels, 2 * num and 2 * num + 1 with num >= 1, are not)
SubnetGateway == 1

RouteInSubnet ==
  [gateway |-> SubnetGateway, ifname |-> None, isPending |-> FALSE,
   pendingReason |-> ""]

cidrOverlapNever(addr, gateway) == FALSE

\* cidr.overlap(`${IPv4}/${IPv4Mask}`, `${gateway}/32`) for an interface
\* address of the model ('' when the interface has none)
cidrOverlap(addr, gateway) == addr # "" /\ gateway = SubnetGateway

\* oneTunnelDel, lines 1180-1185: a static route of one of the tunnel's devices
\* has a loopback address of the tunnel as its gateway
tunnelUsedByStaticRoute(t) ==
  LET ips == {generateTunnelParams(t.num).ip1, generateTunnelParams(t.num).ip2}
      used(d) == \E s \in devices[d].staticroutes : s.gateway \in ips
  IN used(t.deviceA) \/ (~t.peer /\ used(t.deviceB))

(***************************************************************************)
(* Tunnel deletion: oneTunnelDel, delTunnel                                *)
(***************************************************************************)
IdleDelete == [pc |-> "idle", tid |-> 0,
               result |-> [status |-> None, message |-> Message(None, 0, 0),
                           reasons |-> {}]]

\* applyTunnelDel, lines 1131-1147, for the one selected tunnel: the status
\* and the message by the number of fulfilled oneTunnelDel promises; the
\* messages of the rejected promises are the reasons of the message
DeleteResult(fulfilled, reasons) ==
  IF fulfilled < 1
    THEN [status |-> "partially completed",
          message |-> Message("of", fulfilled, 1), reasons |-> reasons]
    ELSE [status |-> "completed", message |-> Message("empty", 0, 0),
          reasons |-> {}]

\* The search of oneTunnelDel that ignores isActive
DelReadErrorAnyDoc(t) ==
  IF tunnelUsedByStaticRoute(tunnels[t])
    THEN "Some static routes defined via removed tunnel, please remove static routes first"
    ELSE None

\* oneTunnelDel, lines 1164-1191: the error thrown before anything is queued,
\* or None
DelReadError(t) ==
  IF ~tunnels[t].isActive THEN "Tunnel not found"
  ELSE IF tunnelUsedByStaticRoute(tunnels[t])
    THEN "Some static routes defined via removed tunnel, please remove static routes first"
  ELSE None

\* oneTunnelDel, lines 1164-1191: findOne({ _id, isActive: true }) and the
\* static-route check; a throw ends the call with nothing changed
DelRead(k, t) ==
  /\ dreq[k].pc = "idle"
  /\ \A q \in Dels : q < k => dreq[q].pc # "idle"
  /\ t \in TunnelIdxs
  /\ dreq' = [dreq EXCEPT ![k] =
       IF DelReadError(t) # None
         THEN [pc |-> "failed", tid |-> t,
               result |-> DeleteResult(0, {DelReadError(t)})]
         ELSE [pc |-> "queue", tid |-> t, result |-> IdleDelete.result]]
  /\ UNCHANGED <<tunnels, tunnelIds, devices, jobs, creq, puts, limiter, pass,
                 notifications>>

\* delTunnel: queueTunnel(false, ...); an error of the queue is thrown on
DelQueue(k, outcome) ==
  /\ dreq[k].pc = "queue"
  /\ LET t == tunnels[dreq[k].tid]
     IN jobs' = jobs \o queueTunnelJobs(FALSE, t.deviceA, t.deviceB, t.num, outcome)
  /\ dreq' = [dreq EXCEPT ![k].pc = IF outcome = "ok" THEN "write" ELSE "failed",
                          ![k].result = IF outcome = "ok" THEN @
                                        ELSE DeleteResult(0, {"addJob error"})]
  /\ UNCHANGED <<tunnels, tunnelIds, devices, creq, puts, limiter, pass,
                 notifications>>

\* A removal that leaves the document as it is
KeepTunnel(doc) == doc

\* oneTunnelDel, lines 1203-1216: the document is deactivated by its _id
DeactivateTunnel(doc) ==
  [doc EXCEPT !.isActive = FALSE, !.deviceAconf = FALSE, !.deviceBconf = FALSE,
              !.pendingTunnelModification = FALSE]

DelWrite(k) ==
  /\ dreq[k].pc = "write"
  /\ tunnels' = [tunnels EXCEPT ![dreq[k].tid] = DeactivateTunnel(@)]
  /\ dreq' = [dreq EXCEPT ![k].pc = "done", ![k].result = DeleteResult(1, {})]
  /\ UNCHANGED <<tunnelIds, devices, jobs, creq, puts, limiter, pass,
                 notifications>>

(***************************************************************************)
(* SpecAlloc: concurrent creation requests                                 *)
(***************************************************************************)
\* The organization is new (no counter document, no tunnel), or its counter
\* stands one below the limit: then the tunnels it numbered are active tunnels
\* between devices outside the model, which no query of these operations
\* selects, except possibly the last one, between d1 and d2.
InitCounters == {NoDoc, MaxTunnels - 1}

TrackedTunnel(n, active) ==
  [NewTunnelDoc(n) EXCEPT !.isActive = active, !.deviceA = "d1",
     !.interfaceA = WanOf("d1"), !.deviceB = "d2", !.interfaceB = WanOf("d2")]

\* new Events(): changedDevices in the order of their first change, the
\* numbers of the tunnels set to pending and of those set to active
NewEvents ==
  [changedDevices |-> << >>, pendingTunnels |-> {}, activeTunnels |-> {}]

\* What a device reports of its interface: the address ('' when it has none)
\* and the public port
NumPorts == 2
Ports == 1..NumPorts
Facts == [IPv4 : {"", "ip"}, public_port : Ports]

\* No pass of the event engine is running
NoPass ==
  [phase |-> "idle", dev |-> None, upd |-> [IPv4 |-> "", public_port |-> 1],
   orig |-> InitDevice(FALSE), ev |-> NewEvents, persisted |-> FALSE]

InitAlloc ==
  /\ tunnelIds \in InitCounters
  /\ tunnels \in IF tunnelIds = NoDoc THEN {<< >>}
                 ELSE {<< >>} \cup {<<TrackedTunnel(tunnelIds, a)>> : a \in BOOLEAN}
  /\ devices = [d \in Devices |-> InitDevice(TRUE)]
  /\ jobs = << >>
  /\ creq = [r \in Reqs |-> IdleRequest]
  /\ dreq = [k \in Dels |-> IdleDelete]
  /\ puts = << >>
  /\ limiter = << >>
  /\ pass = NoPass
  /\ notifications = << >>

PromIdxs == 1..Len(AllPairs)

NextAlloc ==
  \/ \E r \in Reqs, S \in DevSets : StartRequest(r, S)
  \/ \E r \in Reqs, i \in PromIdxs : FindInactive(r, i)
  \/ \E r \in Reqs, i \in PromIdxs : CounterInc(r, i)
  \/ \E r \in Reqs, i \in PromIdxs : CounterInsert(r, i)
  \/ \E r \in Reqs, i \in PromIdxs : AddTunnel(r, i)
  \/ \E r \in Reqs, i \in PromIdxs, o \in QueueOutcomes : QueueAddJobs(r, i, o)
  \/ \E r \in Reqs : FinishRequest(r)

SpecAlloc == InitAlloc /\ [][NextAlloc]_vars

(***************************************************************************)
(* SpecCounter: concurrent creation requests when the counter update may   *)
(* also fail with an error of the database                                 *)
(***************************************************************************)
NextCounter ==
  \/ NextAlloc
  \/ \E r \in Reqs, i \in PromIdxs : CounterError(r, i)

SpecCounter == InitAlloc /\ [][NextCounter]_vars

(***************************************************************************)
(* SpecRecycle: creation requests and concurrent deletions                 *)
(***************************************************************************)
NextDelete ==
  \/ \E k \in Dels, t \in 1..(NumRequests + 1) : DelRead(k, t)
  \/ \E k \in Dels, o \in QueueOutcomes : DelQueue(k, o)
  \/ \E k \in Dels : DelWrite(k)

NextRecycle == NextAlloc \/ NextDelete

SpecRecycle == InitAlloc /\ [][NextRecycle]_vars

(***************************************************************************)
(* SpecBatch: one creation request for the tunnels between three devices,  *)
(* and deletion calls                                                      *)
(***************************************************************************)
BatchRequest == 1
BatchDevSets == {S \in SUBSET Devices : Cardinality(S) = 3}

NextBatch ==
  \/ \E S \in BatchDevSets : StartRequest(BatchRequest, S)
  \/ \E i \in PromIdxs : FindInactive(BatchRequest, i)
  \/ \E i \in PromIdxs : CounterInc(BatchRequest, i)
  \/ \E i \in PromIdxs : CounterInsert(BatchRequest, i)
  \/ \E i \in PromIdxs : AddTunnel(BatchRequest, i)
  \/ \E i \in PromIdxs, o \in QueueOutcomes : QueueAddJobs(BatchRequest, i, o)
  \/ FinishRequest(BatchRequest)
  \/ NextDelete

SpecBatch == InitAlloc /\ [][NextBatch]_vars

(***************************************************************************)
(* SpecRepeat: creation requests sent one after another, and deletion      *)
(* calls                                                                   *)
(***************************************************************************)
\* The user sends a request after the earlier ones have returned
StartRequestInTurn(r, S) ==
  /\ \A q \in Reqs : q < r => creq[q].pc = "done"
  /\ StartRequest(r, S)

NextRepeat ==
  \/ \E r \in Reqs, S \in DevSets : StartRequestInTurn(r, S)
  \/ \E r \in Reqs, i \in PromIdxs : FindInactive(r, i)
  \/ \E r \in Reqs, i \in PromIdxs : CounterInc(r, i)
  \/ \E r \in Reqs, i \in PromIdxs : CounterInsert(r, i)
  \/ \E r \in Reqs, i \in PromIdxs : AddTunnel(r, i)
  \/ \E r \in Reqs, i \in PromIdxs, o \in QueueOutcomes : QueueAddJobs(r, i, o)
  \/ \E r \in Reqs : FinishRequest(r)
  \/ NextDelete

SpecRepeat == InitAlloc /\ [][NextRepeat]_vars

(***************************************************************************)
(* SpecComplete: creation requests in turn and the completion callbacks of *)
(* their add-tunnel jobs, which the devices answer in any order            *)
(***************************************************************************)
\* An update that marks both sides of the tunnel
updateTunnelBothSides(ts, n, target, isAdd) ==
  [i \in DOMAIN ts |->
     IF ts[i].num = n
       THEN [ts[i] EXCEPT !.deviceAconf = isAdd, !.deviceBconf = isAdd]
       ELSE ts[i]]

\* updateTunnelIsConnected(tunnelsModel, org, tunnelId, target, isAdd):
\* findOneAndUpdate({num, org}, {[target]: isAdd})
updateTunnelIsConnected(ts, n, target, isAdd) ==
  [i \in DOMAIN ts |->
     IF ts[i].num = n
       THEN IF target = "deviceAconf" THEN [ts[i] EXCEPT !.deviceAconf = isAdd]
            ELSE [ts[i] EXCEPT !.deviceBconf = isAdd]
       ELSE ts[i]]

\* completeTunnelAdd(jobId, res): the device has answered add-tunnel job j
completeTunnelAdd(j) ==
  /\ j \in DOMAIN jobs
  /\ jobs[j].method = "tunnels" /\ jobs[j].state = "queued"
  /\ jobs' = [jobs EXCEPT ![j].state = "completed"]
  /\ tunnels' = updateTunnelIsConnected(tunnels, jobs[j].tunnelId,
                                        jobs[j].target, TRUE)
  /\ UNCHANGED <<tunnelIds, devices, creq, dreq, puts, limiter, pass,
                 notifications>>

JobIds == 1..(4 * NumRequests)

NextComplete ==
  \/ \E r \in Reqs, S \in DevSets : StartRequestInTurn(r, S)
  \/ \E r \in Reqs, i \in PromIdxs : FindInactive(r, i)
  \/ \E r \in Reqs, i \in PromIdxs : CounterInc(r, i)
  \/ \E r \in Reqs, i \in PromIdxs : CounterInsert(r, i)
  \/ \E r \in Reqs, i \in PromIdxs : AddTunnel(r, i)
  \/ \E r \in Reqs, i \in PromIdxs, o \in QueueOutcomes : QueueAddJobs(r, i, o)
  \/ \E r \in Reqs : FinishRequest(r)
  \/ \E j \in JobIds : completeTunnelAdd(j)

SpecComplete == InitAlloc /\ [][NextComplete]_vars

(***************************************************************************)
(* SpecStale: creation requests in turn, deletion, and the completion      *)
(* callbacks of the add-tunnel jobs, which may arrive at any later time    *)
(***************************************************************************)
NextStale ==
  \/ NextRepeat
  \/ \E j \in JobIds : completeTunnelAdd(j)

SpecStale == InitAlloc /\ [][NextStale]_vars

(***************************************************************************)
(* Events: the pending state of tunnels and static routes (events.js)      *)
(***************************************************************************)
\* events/eventReasons: the reason texts, one per interface and device
interfaceHasNoIp(ifc, d) == "no-ip:" \o d
publicPortHighRate(ifc, d) == "public-port-high-rate:" \o d
tunnelIsPending(n) == "tunnel-pending:" \o ToString(n)

\* publicAddressLimiter: `LimiterPoints` changes of a key are allowed within a
\* window, the next one blocks the key; limiter[key] counts the points used
\* and tells whether the key is blocked and whether a block has expired since
\* the last allowed use
LimiterPoints == 2

FreshKey == [points |-> 0, blocked |-> FALSE, expired |-> FALSE]

isBlocked(key) == limiter[key].blocked

\* publicAddrInfoLimiter.use(key): the answer and the state of the key after it
LimiterUse(key) ==
  LET k == limiter[key]
  IN  IF k.blocked
        THEN [allowed |-> FALSE, blockedNow |-> FALSE, releasedNow |-> FALSE,
              key |-> k]
      ELSE IF k.points < LimiterPoints
        THEN [allowed |-> TRUE, blockedNow |-> FALSE, releasedNow |-> k.expired,
              key |-> [k EXCEPT !.points = @ + 1, !.expired = FALSE]]
      ELSE [allowed |-> FALSE, blockedNow |-> TRUE, releasedNow |-> FALSE,
            key |-> [k EXCEPT !.blocked = TRUE]]

\* The state the handlers of one Events instance read and write: the tunnel
\* and device collections, the job queue, the instance's sets, the
\* notifications sent
Store == [tunnels |-> tunnels, devices |-> devices, jobs |-> jobs,
          ev |-> pass.ev, notes |-> notifications]

Notify(s, kind, subject, d) ==
  [s EXCEPT !.notes = Append(@, [kind |-> kind, subject |-> subject, device |-> d])]

\* An addChangedDevice that lists the device at every call
addChangedDeviceAlways(s, d) ==
  [s EXCEPT !.ev.changedDevices = Append(@, [id |-> d, orig |-> s.devices[d]])]

\* addChangedDevice(deviceId): the first call for a device reads and keeps it
addChangedDevice(s, d) ==
  IF \E k \in DOMAIN s.ev.changedDevices : s.ev.changedDevices[k].id = d THEN s
  ELSE [s EXCEPT !.ev.changedDevices =
                    Append(@, [id |-> d, orig |-> s.devices[d]])]

\* setIncompleteRouteStatus(route, isIncomplete, reason, device), and
\* staticRouteSetToPending when the route becomes pending
setIncompleteRouteStatus(s, route, isIncomplete, reason, d) ==
  LET s1 == addChangedDevice(s, d)
      upd(r) == IF r.gateway = route.gateway
                  THEN [r EXCEPT !.isPending = isIncomplete,
                          !.pendingReason = IF isIncomplete THEN reason ELSE ""]
                  ELSE r
      s2 == [s1 EXCEPT !.devices[d].staticroutes = {upd(r) : r \in @}]
  IN  IF isIncomplete THEN Notify(s2, "route-pending", route.gateway, d) ELSE s2

getTunnelStaticRoutesNone(s, t) == [d \in Devices |-> {}]

\* getTunnelStaticRoutes(tunnel): per device, the static routes whose gateway
\* is a loopback address of the tunnel
getTunnelStaticRoutes(s, t) ==
  LET p == generateTunnelParams(t.num)
  IN  [d \in Devices |->
         {r \in s.devices[d].staticroutes : r.gateway \in {p.ip1, p.ip2}}]

\* The loop over the devices and their routes of tunnelSetToPending and
\* tunnelSetToActive; a device has at most one route through a tunnel
RECURSIVE CascadeRoutes(_, _, _, _, _)
CascadeRoutes(s, found, ds, isIncomplete, reason) ==
  IF ds = << >> THEN s
  ELSE LET d == Head(ds)
           todo == {r \in found[d] : r.isPending # isIncomplete}
           s1 == IF todo = {} THEN s
                 ELSE setIncompleteRouteStatus(s, CHOOSE r \in todo : TRUE,
                                               isIncomplete, reason, d)
       IN  CascadeRoutes(s1, found, Tail(ds), isIncomplete, reason)

\* tunnelSetToPending(tunnel, device, reason, notify)
tunnelSetToPending(s, t, d, reason, notify) ==
  LET s1 == IF notify THEN Notify(s, "tunnel-pending", t.num, d) ELSE s
  IN  CascadeRoutes(s1, getTunnelStaticRoutes(s1, t), DevOrder, TRUE,
                    tunnelIsPending(t.num))

\* tunnelSetToActive(tunnel)
tunnelSetToActive(s, t) ==
  CascadeRoutes(s, getTunnelStaticRoutes(s, t), DevOrder, FALSE, "")

\* findOneAndUpdate / updateOne of a tunnel by { org, num }
DocOfNum(s, n) == CHOOSE i \in DOMAIN s.tunnels :
                    s.tunnels[i].num = n /\ \A j \in DOMAIN s.tunnels :
                       s.tunnels[j].num = n => i <= j

\* updatePendingTunnelReason(num, org, reason)
updatePendingTunnelReason(s, n, reason) ==
  [s EXCEPT !.tunnels[DocOfNum(s, n)].pendingReason = reason]

\* setIncompleteTunnelStatus(num, org, isIncomplete, reason, device)
setIncompleteTunnelStatus(s, n, isIncomplete, reason, d) ==
  LET s1 == addChangedDevice(s, d)
      i  == DocOfNum(s1, n)
      s2 == [s1 EXCEPT !.tunnels[i].isPending = isIncomplete,
                       !.tunnels[i].pendingReason =
                          IF isIncomplete THEN reason ELSE ""]
      t  == s2.tunnels[i]
  IN  IF isIncomplete
        THEN tunnelSetToPending([s2 EXCEPT !.ev.pendingTunnels = @ \cup {n}],
                                t, d, reason, TRUE)
        ELSE tunnelSetToActive([s2 EXCEPT !.ev.activeTunnels = @ \cup {n}], t)

\* The documents a find returns, in the order of the collection
IdxSeq(S) == SelectSeq([i \in 1..Len(tunnels) |-> i], LAMBDA i : i \in S)

\* The query of removePendingStateFromTunnels and setPendingStateToTunnels:
\* the active tunnels of the device on the interface (of the device on any
\* interface when ifc is None)
TunnelsOfIfc(s, d, ifc) ==
  {i \in DOMAIN s.tunnels :
     /\ s.tunnels[i].isActive
     /\ \/ s.tunnels[i].deviceA = d /\ (ifc = None \/ s.tunnels[i].interfaceA = ifc)
        \/ s.tunnels[i].deviceB = d /\ (ifc = None \/ s.tunnels[i].interfaceB = ifc)}

\* removePendingStateFromTunnels, lines 287-306: the device whose interface of
\* the tunnel has no IP, None when both ends have one
NoIpSideNone(snap, t) == None

NoIpSide(snap, t) ==
  LET noA == snap.devices[t.deviceA].wan.hasIpOnDevice = FALSE
      noB == ~t.peer /\ snap.devices[t.deviceB].wan.hasIpOnDevice = FALSE
  IN  IF ~(noA \/ noB) THEN None
      ELSE IF t.peer THEN t.deviceA
      ELSE IF snap.devices[t.deviceA].wan.hasIpOnDevice THEN t.deviceB
      ELSE t.deviceA

\* removePendingStateFromTunnels, lines 308-321: the device whose key the
\* limiter blocks, None when neither is blocked or the tunnel is a peer tunnel
BlockedSideNone(t, lim) == None

BlockedSide(t, lim) ==
  IF t.peer THEN None
  ELSE IF lim[t.deviceA].blocked THEN t.deviceA
  ELSE IF lim[t.deviceB].blocked THEN t.deviceB
  ELSE None

\* removePendingStateFromTunnels: the body of the loop, for one tunnel of the
\* find (snap is the state the find and its populate read)
RemovePendingStep(s, snap, t, d, lim) ==
  IF ~t.isPending THEN tunnelSetToActive(s, t)
  ELSE IF NoIpSide(snap, t) # None
    THEN LET reason == interfaceHasNoIp(WanOf(NoIpSide(snap, t)), NoIpSide(snap, t))
         IN  IF t.pendingReason # reason
               THEN updatePendingTunnelReason(s, t.num, reason) ELSE s
  ELSE IF BlockedSide(t, lim) # None
    THEN LET reason == publicPortHighRate(WanOf(BlockedSide(t, lim)),
                                          BlockedSide(t, lim))
         IN  IF t.pendingReason # reason
               THEN updatePendingTunnelReason(s, t.num, reason) ELSE s
  ELSE setIncompleteTunnelStatus(s, t.num, FALSE, "", d)

RECURSIVE RemovePendingLoop(_, _, _, _, _)
RemovePendingLoop(s, snap, idxs, d, lim) ==
  IF idxs = << >> THEN s
  ELSE RemovePendingLoop(RemovePendingStep(s, snap, snap.tunnels[Head(idxs)], d, lim),
                         snap, Tail(idxs), d, lim)

\* removePendingStateFromTunnels(device, origIfc = null)
removePendingStateFromTunnels(s, d, ifc, lim) ==
  RemovePendingLoop(s, s, IdxSeq(TunnelsOfIfc(s, d, ifc)), d, lim)

\* setPendingStateToTunnels, lines 413-416: query.peer = null selects the
\* normal tunnels only
PeerFilterAll(t, includingPeers) == TRUE

PeerFilterNoPeers(t, includingPeers) == ~t.peer

PeerFilter(t, includingPeers) == includingPeers \/ ~t.peer

\* setPendingStateToTunnels, lines 421-427: a tunnel that is pending already
SetPendingNotifying(s, t, d, reason) ==
  setIncompleteTunnelStatus(s, t.num, TRUE, reason, d)

AlreadyPendingStep(s, t, d, reason) ==
  tunnelSetToPending(IF reason # t.pendingReason
                       THEN updatePendingTunnelReason(s, t.num, reason) ELSE s,
                     t, d, reason, FALSE)

SetPendingStep(s, t, d, reason) ==
  IF t.isPending THEN AlreadyPendingStep(s, t, d, reason)
  ELSE setIncompleteTunnelStatus(s, t.num, TRUE, reason, d)

RECURSIVE SetPendingLoop(_, _, _, _, _)
SetPendingLoop(s, snap, idxs, d, reason) ==
  IF idxs = << >> THEN s
  ELSE SetPendingLoop(SetPendingStep(s, snap.tunnels[Head(idxs)], d, reason),
                      snap, Tail(idxs), d, reason)

\* setPendingStateToTunnels(device, origIfc, reason, includingPeers = true)
setPendingStateToTunnels(s, d, ifc, reason, includingPeers) ==
  SetPendingLoop(s, s,
    IdxSeq({i \in TunnelsOfIfc(s, d, ifc) : PeerFilter(s.tunnels[i], includingPeers)}),
    d, reason)

\* The loops of interfaceIpMissing and interfaceIpExists over the static
\* routes of the device that name the interface or have their gateway in its
\* subnet
RECURSIVE RoutesLoop(_, _, _, _, _)
RoutesLoop(s, routes, isIncomplete, reason, d) ==
  IF routes = {} THEN s
  ELSE LET r == CHOOSE x \in routes : TRUE
       IN  RoutesLoop(setIncompleteRouteStatus(s, r, isIncomplete, reason, d),
                      routes \ {r}, isIncomplete, reason, d)

\* interfaceIpMissing(device, origIfc, ifc); device is the document read
\* before the report
interfaceIpMissing(s, d, orig) ==
  LET reason == interfaceHasNoIp(WanOf(d), d)
      s1 == IF orig.wan.hasIpOnDevice THEN Notify(s, "ip-missing", WanOf(d), d) ELSE s
      s2 == IF orig.wan.type = "WAN"
              THEN setPendingStateToTunnels(s1, d, WanOf(d), reason, TRUE) ELSE s1
  IN  IF AgentVersion(d) <= 4 THEN s2
      ELSE RoutesLoop(s2, {r \in orig.staticroutes :
                             /\ ~r.isPending
                             /\ \/ r.ifname = WanOf(d)
                                \/ cidrOverlap(orig.wan.addr, r.gateway)},
                      TRUE, reason, d)

\* interfaceIpExists(device, origIfc, ifc); upd is the reported interface
interfaceIpExists(s, d, orig, upd, lim) ==
  LET s1 == IF orig.wan.hasIpOnDevice = FALSE
              THEN Notify(s, "ip-restored", WanOf(d), d) ELSE s
      s2 == IF orig.wan.type = "WAN"
              THEN removePendingStateFromTunnels(s1, d, WanOf(d), lim) ELSE s1
  IN  RoutesLoop(s2, {r \in orig.staticroutes :
                        /\ r.isPending
                        /\ \/ r.ifname = WanOf(d)
                           \/ cidrOverlap(upd.IPv4, r.gateway)},
                 FALSE, "", d)

(***************************************************************************)
(* Device modification: modifyDevice.js apply, queueModifyDeviceJob,       *)
(* queueJob, reconstructTunnels, complete                                  *)
(***************************************************************************)
\* transformInterfaces: the interface fields apply compares
transformInterfaces(ifc) ==
  [dhcp |-> ifc.dhcp, addr |-> ifc.addr, PublicPort |-> ifc.PublicPort,
   type |-> ifc.type, isAssigned |-> ifc.isAssigned,
   pathlabels |-> ifc.pathlabels]

\* prepareIfcParams: the fields sent to the device; isAssigned and pathlabels
\* are omitted and only the DIA labels are kept, as multilink.labels
prepareIfcParams(ifc) ==
  [dhcp |-> ifc.dhcp, addr |-> ifc.addr, PublicPort |-> ifc.PublicPort,
   type |-> ifc.type, multilink |-> {l \in ifc.pathlabels : l = "DIA"}]

\* prepareModifyRoutes: the route fields apply compares
RouteKeys(dev) ==
  {[gateway |-> r.gateway, ifname |-> r.ifname] : r \in dev.staticroutes}

\* A comparison that does not drop the changes of unassigned interfaces
ModifyParamsUnfiltered(orig, new) ==
  LET assignedDiff == new.wan.isAssigned # orig.wan.isAssigned
  IN  [modify_routes |-> RouteKeys(new) # RouteKeys(orig),
       modify_dhcp_config |-> new.dhcp # orig.dhcp,
       assign |-> assignedDiff /\ new.wan.isAssigned,
       unassign |-> assignedDiff /\ ~new.wan.isAssigned,
       modify_interfaces |->
         /\ ~assignedDiff
         /\ transformInterfaces(new.wan) # transformInterfaces(orig.wan)]

\* apply, lines 766-876: what differs between the original and the new device
ModifyParams(orig, new) ==
  LET assignedDiff == new.wan.isAssigned # orig.wan.isAssigned
  IN  [modify_routes |-> RouteKeys(new) # RouteKeys(orig),
       modify_dhcp_config |-> new.dhcp # orig.dhcp,
       assign |-> assignedDiff /\ new.wan.isAssigned,
       unassign |-> assignedDiff /\ ~new.wan.isAssigned,
       modify_interfaces |->
         /\ ~assignedDiff
         /\ transformInterfaces(new.wan) # transformInterfaces(orig.wan)
         /\ new.wan.isAssigned]

shouldQueueJobAlways(mp) == TRUE

\* apply, lines 877-881
shouldQueueJob(mp) ==
  mp.modify_routes \/ mp.assign \/ mp.unassign \/ mp.modify_interfaces
    \/ mp.modify_dhcp_config

\* deviceLogic/validators: an assigned interface needs a well-formed address,
\* and an interface with a DHCP server defined on it may not be modified
validateDevice(req) == ~(req.isAssigned /\ req.addr = "")

validateModifyDeviceMsg(mp, new) ==
  (mp.assign \/ mp.modify_interfaces) => new.wan.addr # ""

validateDhcpConfig(orig, mp, d) ==
  (mp.assign \/ mp.modify_interfaces \/ mp.unassign) => WanOf(d) \notin orig.dhcp

\* apply, lines 899-922: the checks made before anything is written
applyValid(orig, new, d) ==
  /\ validateModifyDeviceMsg(ModifyParams(orig, new), new)
  /\ validateDhcpConfig(orig, ModifyParams(orig, new), d)

\* setJobPendingInDB(deviceID, org, flag)
setJobPendingInDB(s, d, flag) ==
  [s EXCEPT !.devices[d].pendingDevModification = flag]

\* prepareModificationMessageV2(messageParams, device): the requests of the
\* aggregated message, by their message names; the interfaces are compared
\* again, as prepareIfcParams leaves them
prepareModificationMessageV2(mp, orig, new) ==
  (IF mp.modify_interfaces
      /\ prepareIfcParams(transformInterfaces(new.wan))
           # prepareIfcParams(transformInterfaces(orig.wan))
     THEN {"modify-interface"} ELSE {})
  \cup (IF RouteKeys(orig) \ RouteKeys(new) # {} THEN {"remove-route"} ELSE {})
  \cup (IF RouteKeys(new) \ RouteKeys(orig) # {} THEN {"add-route"} ELSE {})
  \cup (IF mp.assign THEN {"add-interface"} ELSE {})
  \cup (IF mp.unassign THEN {"remove-interface"} ELSE {})
  \cup (IF mp.modify_dhcp_config THEN {"remove-dhcp-config", "add-dhcp-config"}
        ELSE {})

\* queueJob: the job carries the tasks, the original device and the removed
\* tunnels
ModifyJob(d, orig, removed, tasks) ==
  [method |-> "modify", device |-> d, origDevice |-> orig,
   tunnels |-> removed, tasks |-> tasks, state |-> "queued"]

ModifyOutcomes == {"ok", "failA", "failB", "failJob"}

TunnelOutcome(outcome) == IF outcome = "failJob" THEN "ok" ELSE outcome

\* The teardown of one tunnel that does not wait for the DHCP information
TeardownStepEager(q, found, i, d, orig, new, mp, outcome) ==
  LET t == found[i]
      removeJobs == queueTunnelJobs(FALSE, t.deviceA, t.deviceB, t.num,
                                    TunnelOutcome(outcome))
      queued == [q.s EXCEPT !.jobs = @ \o removeJobs]
      pathlabels == IF mp.modify_interfaces THEN new.wan.pathlabels ELSE {}
      pathLabelRemoved == t.pathlabel # "none" /\ t.pathlabel \notin pathlabels
  IN  IF t.peer THEN [q EXCEPT !.err = TRUE]
      ELSE IF ~mp.modify_interfaces \/ pathLabelRemoved
        THEN IF ~q.s.tunnels[i].isActive \/ tunnelUsedByStaticRoute(t)
               THEN [q EXCEPT !.err = TRUE]
             ELSE IF TunnelOutcome(outcome) # "ok"
               THEN [q EXCEPT !.s = queued, !.err = TRUE]
             ELSE [q EXCEPT !.s = [queued EXCEPT !.tunnels[i] = DeactivateTunnel(@)]]
      ELSE IF t.pendingTunnelModification THEN q
      ELSE LET marked == [queued EXCEPT !.tunnels[i].pendingTunnelModification = TRUE]
           IN  IF TunnelOutcome(outcome) # "ok"
                 THEN [q EXCEPT !.s = marked, !.err = TRUE]
                 ELSE [q EXCEPT !.s = marked, !.removed = @ \cup {i}]

\* queueModifyDeviceJob, lines 411-489: one tunnel of the modified interface,
\* as the find returned it (found); q is the state, the tunnels removed so
\* far and whether a call has thrown.  oneTunnelDel reads the tunnel again and
\* throws when it is no longer active.
TeardownStep(q, found, i, d, orig, new, mp, outcome) ==
  LET t == found[i]
      removeJobs == queueTunnelJobs(FALSE, t.deviceA, t.deviceB, t.num,
                                    TunnelOutcome(outcome))
      queued == [q.s EXCEPT !.jobs = @ \o removeJobs]
      pathlabels == IF mp.modify_interfaces THEN new.wan.pathlabels ELSE {}
      pathLabelRemoved == t.pathlabel # "none" /\ t.pathlabel \notin pathlabels
  IN  IF t.peer THEN [q EXCEPT !.err = TRUE]
      ELSE IF ~mp.modify_interfaces \/ pathLabelRemoved
        THEN IF ~q.s.tunnels[i].isActive \/ tunnelUsedByStaticRoute(t)
               THEN [q EXCEPT !.err = TRUE]
             ELSE IF TunnelOutcome(outcome) # "ok"
               THEN [q EXCEPT !.s = queued, !.err = TRUE]
             ELSE [q EXCEPT !.s = [queued EXCEPT !.tunnels[i] = DeactivateTunnel(@)]]
      ELSE IF new.wan.dhcp = "yes" /\ orig.wan.dhcp # "yes" THEN q
      ELSE IF t.pendingTunnelModification THEN q
      ELSE LET marked == [queued EXCEPT !.tunnels[i].pendingTunnelModification = TRUE]
           IN  IF TunnelOutcome(outcome) # "ok"
                 THEN [q EXCEPT !.s = marked, !.err = TRUE]
                 ELSE [q EXCEPT !.s = marked, !.removed = @ \cup {i}]

RECURSIVE TeardownLoop(_, _, _, _, _, _, _, _)
TeardownLoop(q, found, idxs, d, orig, new, mp, outcome) ==
  IF idxs = << >> \/ q.err THEN q
  ELSE TeardownLoop(TeardownStep(q, found, Head(idxs), d, orig, new, mp, outcome),
                    found, Tail(idxs), d, orig, new, mp, outcome)

\* queueModifyDeviceJob(device, messageParams, user, org); found is the
\* tunnels collection as the find of the active tunnels of the interface (line
\* 403) read it
queueModifyDeviceJob(s, found, d, orig, new, outcome) ==
  LET mp == ModifyParams(orig, new)
      tasks == prepareModificationMessageV2(mp, orig, new)
      q0 == [s |-> s, removed |-> {}, err |-> FALSE, ids |-> {}]
      q1 == IF mp.assign \/ mp.unassign \/ mp.modify_interfaces
              THEN TeardownLoop(q0, found,
                     IdxSeq(TunnelsOfIfc([s EXCEPT !.tunnels = found], d, WanOf(d))),
                     d, orig, new, mp, outcome)
              ELSE q0
  IN  IF q1.err THEN q1
      ELSE IF tasks = {} THEN q1
      ELSE IF outcome = "failJob" THEN [q1 EXCEPT !.err = TRUE]
      ELSE [q1 EXCEPT
              !.s.jobs = Append(@, ModifyJob(d, orig, q1.removed, tasks)),
              !.ids = {Len(q1.s.jobs) + 1}]

\* apply(device, user, data), as one call
applyModify(s, d, orig, new, outcome) ==
  IF ~shouldQueueJob(ModifyParams(orig, new))
    THEN [s |-> s, removed |-> {}, err |-> FALSE, ids |-> {}]
  ELSE IF ~applyValid(orig, new, d)
    THEN [s |-> s, removed |-> {}, err |-> TRUE, ids |-> {}]
  ELSE queueModifyDeviceJob(setJobPendingInDB(s, d, TRUE), s.tunnels, d, orig,
                            new, outcome)

\* reconstructTunnels(removedTunnels, org, username): add jobs for the listed
\* tunnels that are active, until a queueTunnel throws; then the
\* pendingTunnelModification of all the listed tunnels is cleared
RECURSIVE ReconstructLoop(_, _, _)
ReconstructLoop(s, idxs, outcome) ==
  IF idxs = << >> THEN s
  ELSE LET t == s.tunnels[Head(idxs)]
           s1 == [s EXCEPT !.jobs = @ \o
                    queueTunnelJobs(TRUE, t.deviceA, t.deviceB, t.num, outcome)]
       IN  IF outcome # "ok" THEN s1
           ELSE ReconstructLoop(s1, Tail(idxs), outcome)

\* A rebuild of every tunnel waiting for one, whichever job removed it
reconstructFlagged(s, removed, outcome) ==
  LET all == {i \in DOMAIN s.tunnels : s.tunnels[i].pendingTunnelModification}
      s1 == ReconstructLoop(s, IdxSeq({i \in all : s.tunnels[i].isActive}),
                            outcome)
  IN  [s1 EXCEPT !.tunnels = [i \in DOMAIN @ |->
         IF i \in all THEN [@[i] EXCEPT !.pendingTunnelModification = FALSE]
         ELSE @[i]]]

reconstructTunnels(s, removed, outcome) ==
  LET s1 == ReconstructLoop(s, IdxSeq({i \in removed : s.tunnels[i].isActive}),
                            outcome)
  IN  [s1 EXCEPT !.tunnels = [i \in DOMAIN @ |->
         IF i \in removed THEN [@[i] EXCEPT !.pendingTunnelModification = FALSE]
         ELSE @[i]]]

\* The collections after a call
SetStore(s) ==
  /\ tunnels' = s.tunnels
  /\ devices' = s.devices
  /\ jobs' = s.jobs
  /\ notifications' = s.notes

(***************************************************************************)
(* DevicesService.devicesIdPUT                                             *)
(***************************************************************************)
NumPuts == 2
Puts == 1..NumPuts
PutDevices == {"d1"}

LabelTypes == {"DIA", "Tunnel"}

\* A device request: the approval; when it has interfaces, the address, the
\* assignment, the DHCP setting and the path labels (by their types) of the
\* WAN interface; and whether its static routes are the stored ones with one
\* more
AllDeviceRequests ==
  {q \in [isApproved : BOOLEAN, hasInterfaces : BOOLEAN, addr : Addrs,
          isAssigned : BOOLEAN, pathlabels : SUBSET LabelTypes,
          addsRoute : BOOLEAN, dhcp : {"no", "yes"}] :
     ~q.hasInterfaces =>
       (q.addr = "" /\ q.isAssigned /\ q.pathlabels = {} /\ q.dhcp = "no")}

\* The requests that leave the path labels, the DHCP setting and the static
\* routes as they are
DeviceRequests ==
  {q \in AllDeviceRequests : q.pathlabels = {} /\ ~q.addsRoute /\ q.dhcp = "no"}

IdlePut == [pc |-> "idle", dev |-> None, orig |-> InitDevice(FALSE),
            upd |-> InitDevice(FALSE), found |-> << >>, ret |-> {}]

\* devices.findOneAndUpdate({ id, org }, deviceRequest, { new: true })
UpdateDevice(doc, req) ==
  [doc EXCEPT !.isApproved = req.isApproved,
              !.wan.addr = IF req.hasInterfaces THEN req.addr ELSE @,
              !.wan.isAssigned = IF req.hasInterfaces THEN req.isAssigned ELSE @,
              !.wan.pathlabels = IF req.hasInterfaces THEN req.pathlabels ELSE @,
              !.wan.dhcp = IF req.hasInterfaces THEN req.dhcp ELSE @,
              !.staticroutes = IF req.addsRoute THEN @ \cup {RouteInSubnet} ELSE @]

\* A transaction that does not read pendingDevModification
PutRejectedNoFlag(orig, req) ==
  \/ ~orig.isApproved /\ ~req.isApproved
  \/ orig.isApproved /\ req.hasInterfaces /\ ~validateDevice(req)

\* devicesIdPUT, lines 462-500: the request is rejected inside the transaction
PutRejected(orig, req) ==
  \/ ~orig.isApproved /\ ~req.isApproved
  \/ orig.isApproved /\ req.hasInterfaces /\ ~validateDevice(req)
  \/ orig.pendingDevModification

\* devicesIdPUT, lines 454-508: the transaction reads the device, checks the
\* request, writes the new document and commits
PutTxn(p, d, req) ==
  /\ puts[p].pc = "idle"
  /\ \A q \in Puts : q < p => puts[q].pc # "idle"
  /\ IF PutRejected(devices[d], req)
       THEN /\ puts' = [puts EXCEPT ![p] = [pc |-> "rejected", dev |-> d,
                           orig |-> devices[d], upd |-> devices[d],
                           found |-> << >>, ret |-> {}]]
            /\ UNCHANGED devices
       ELSE /\ puts' = [puts EXCEPT ![p] = [pc |-> "apply", dev |-> d,
                           orig |-> devices[d],
                           upd |-> UpdateDevice(devices[d], req),
                           found |-> << >>, ret |-> {}]]
            /\ devices' = [devices EXCEPT ![d] = UpdateDevice(@, req)]
  /\ UNCHANGED <<tunnels, tunnelIds, jobs, creq, dreq, limiter, pass,
                 notifications>>

\* apply, lines 884-889 and 926-930: the object apply returns for a device
\* that did not change (no ids) and after queueModifyDeviceJob; a call that
\* throws returns nothing, and ret stays empty
ApplyResult(ids) == [ids |-> ids, status |-> "completed", message |-> ""]

\* devicesIdPUT, line 514, and apply up to setJobPendingInDB (line 923)
PutApply(p) ==
  /\ puts[p].pc = "apply"
  /\ LET d == puts[p].dev
         orig == puts[p].orig
         new == puts[p].upd
     IN  IF ~shouldQueueJob(ModifyParams(orig, new))
           THEN /\ puts' = [puts EXCEPT ![p].pc = "done",
                                        ![p].ret = {ApplyResult({})}]
                /\ UNCHANGED devices
         ELSE IF ~applyValid(orig, new, d)
           THEN puts' = [puts EXCEPT ![p].pc = "failed"] /\ UNCHANGED devices
         ELSE /\ puts' = [puts EXCEPT ![p].pc = "find"]
              /\ devices' = setJobPendingInDB(Store, d, TRUE).devices
  /\ UNCHANGED <<tunnels, tunnelIds, jobs, creq, dreq, limiter, pass,
                 notifications>>

\* queueModifyDeviceJob, lines 400-409: the find of the active tunnels of the
\* modified interface
PutFind(p) ==
  /\ puts[p].pc = "find"
  /\ puts' = [puts EXCEPT ![p].pc = "queue", ![p].found = tunnels]
  /\ UNCHANGED <<tunnels, tunnelIds, devices, jobs, creq, dreq, limiter, pass,
                 notifications>>

\* queueModifyDeviceJob, lines 411-503: the loop over the tunnels found and
\* queueJob
PutQueue(p, outcome) ==
  /\ puts[p].pc = "queue"
  /\ LET q == queueModifyDeviceJob(Store, puts[p].found, puts[p].dev,
                                   puts[p].orig, puts[p].upd, outcome)
     IN  /\ SetStore(q.s)
         /\ puts' = [puts EXCEPT
              ![p].pc = IF q.err THEN "failed" ELSE "done",
              ![p].ret = IF q.err THEN {} ELSE {ApplyResult(q.ids)}]
  /\ UNCHANGED <<tunnelIds, creq, dreq, limiter, pass>>

(***************************************************************************)
(* The callbacks of a modify-device job                                    *)
(***************************************************************************)
IsQueuedModify(j) ==
  j \in DOMAIN jobs /\ jobs[j].method = "modify" /\ jobs[j].state = "queued"

\* complete(jobId, res): reconstructTunnels(res.tunnels, res.org, res.user)
ModifyComplete(j, outcome) ==
  /\ IsQueuedModify(j)
  /\ SetStore(reconstructTunnels([Store EXCEPT !.jobs[j].state = "completed"],
                                 jobs[j].tunnels, outcome))
  /\ UNCHANGED <<tunnelIds, creq, dreq, puts, limiter, pass>>

\* The job failed on the device: modifyDevice.js exports no error callback
ModifyError(j) ==
  /\ IsQueuedModify(j)
  /\ jobs' = [jobs EXCEPT ![j].state = "failed"]
  /\ UNCHANGED <<tunnels, tunnelIds, devices, creq, dreq, puts, limiter, pass,
                 notifications>>

\* The job was removed from the queue: modifyDevice.js exports no remove
\* callback
ModifyRemoved(j) ==
  /\ IsQueuedModify(j)
  /\ jobs' = [jobs EXCEPT ![j].state = "removed"]
  /\ UNCHANGED <<tunnels, tunnelIds, devices, creq, dreq, puts, limiter, pass,
                 notifications>>

(***************************************************************************)
(* events.js activatePendingTunnelsOfDevice                                *)
(***************************************************************************)
\* The loop of apply calls over the changed devices; updated are the devices
\* prepareModifyDispatcherParameters has read
RECURSIVE ApplyChanged(_, _, _, _)
ApplyChanged(s, changed, updated, outcome) ==
  IF changed = << >> THEN s
  ELSE LET c == Head(changed)
           r == applyModify(s, c.id, c.orig, updated[c.id], outcome)
       IN  IF r.err THEN r.s
           ELSE ApplyChanged(r.s, Tail(changed), updated, outcome)

\* activatePendingTunnelsOfDevice, lines 789-790: a new Events instance
\* removes the pending state from the device's tunnels
ActivateStart(d) ==
  /\ pass.phase = "idle"
  /\ LET s == removePendingStateFromTunnels([Store EXCEPT !.ev = NewEvents],
                                            d, None, limiter)
     IN  /\ SetStore(s)
         /\ pass' = [NoPass EXCEPT !.phase = "activated", !.dev = d, !.ev = s.ev]
  /\ UNCHANGED <<tunnelIds, creq, dreq, puts, limiter>>

\* activatePendingTunnelsOfDevice, lines 792-805: sendTunnelsCreateJobs calls
\* reconstructTunnels, which events.js gets from modifyDevice.js and
\* modifyDevice.js does not export: the call throws when a tunnel was set to
\* active; otherwise apply runs for every changed device
ActivateDispatch(outcome) ==
  /\ pass.phase = "activated"
  /\ IF pass.ev.activeTunnels # {}
       THEN UNCHANGED <<tunnels, devices, jobs, notifications>>
       ELSE SetStore(ApplyChanged(Store, pass.ev.changedDevices, devices, outcome))
  /\ pass' = NoPass
  /\ UNCHANGED <<tunnelIds, creq, dreq, puts, limiter>>

(***************************************************************************)
(* The periodic task release_pending_tunnels (PendingTunnels.runTask)      *)
(***************************************************************************)
\* runTask, lines 63-68: the pending tunnels the task finds; it asks for
\* pendingType, a field setIncompleteTunnelStatus (isPending, pendingReason)
\* does not write
FoundByTask ==
  {i \in TunnelIdxs : /\ tunnels[i].isPending /\ tunnels[i].isActive
                      /\ tunnels[i].pendingType = "publicPortHighRate"}

\* runTask, lines 72-96: the devices of the found tunnels.  The keys the
\* task asks the limiter about are built from tunnel.ifcA and tunnel.ifcB,
\* which a tunnel document does not have, so no found tunnel is skipped as
\* blocked; activatePendingTunnelsOfDevice asks again with the real keys.
DevicesToRelease ==
  {tunnels[i].deviceA : i \in FoundByTask}
    \cup {tunnels[i].deviceB : i \in {k \in FoundByTask : ~tunnels[k].peer}}

\* One run of the task: with nothing to release it ends at once; otherwise
\* it activates a device to release (a throw of the dispatch ends the loop
\* over the devices, the next run goes on with what is still pending)
runTask(d) ==
  /\ pass.phase = "idle"
  /\ IF DevicesToRelease = {}
       THEN /\ d = None
            /\ pass' = [NoPass EXCEPT !.phase = "activated"]
            /\ UNCHANGED <<tunnels, tunnelIds, devices, jobs, creq, dreq, puts,
                           limiter, notifications>>
       ELSE d \in DevicesToRelease /\ ActivateStart(d)

(***************************************************************************)
(* SpecModify: concurrent PUT requests of a device, the callbacks of their *)
(* jobs, and the activation of pending tunnels                             *)
(***************************************************************************)
RouteStates == {"none", "active", "pending"}

InitRoutes(rt) ==
  IF rt = "none" THEN {}
  ELSE {[RouteVia(1) EXCEPT !.isPending = (rt = "pending"),
           !.pendingReason = IF rt = "pending" THEN tunnelIsPending(1) ELSE ""]}

InitModify ==
  /\ tunnelIds = 1
  /\ \E pnd \in BOOLEAN :
       tunnels = <<[TrackedTunnel(1, TRUE) EXCEPT !.isPending = pnd,
                      !.pendingReason =
                         IF pnd THEN publicPortHighRate("d1", "d1") ELSE ""]>>
  /\ \E apr \in BOOLEAN, dh \in BOOLEAN, rt \in RouteStates :
       devices = [d \in Devices |->
         IF d = "d1"
           THEN [InitDevice(apr) EXCEPT !.staticroutes = InitRoutes(rt),
                    !.dhcp = IF dh THEN {WanOf("d1")} ELSE {}]
           ELSE InitDevice(TRUE)]
  /\ jobs = << >>
  /\ creq = [r \in Reqs |-> IdleRequest]
  /\ dreq = [k \in Dels |-> IdleDelete]
  /\ puts = [p \in Puts |-> IdlePut]
  /\ limiter = [d \in Devices |-> FreshKey]
  /\ pass = NoPass
  /\ notifications = << >>

NextModify ==
  \/ \E p \in Puts, d \in PutDevices, req \in DeviceRequests : PutTxn(p, d, req)
  \/ \E p \in Puts : PutApply(p)
  \/ \E p \in Puts : PutFind(p)
  \/ \E p \in Puts, outcome \in ModifyOutcomes : PutQueue(p, outcome)
  \/ \E j \in DOMAIN jobs, outcome \in QueueOutcomes : ModifyComplete(j, outcome)
  \/ \E j \in DOMAIN jobs : ModifyError(j)
  \/ \E j \in DOMAIN jobs : ModifyRemoved(j)
  \/ \E d \in PutDevices : ActivateStart(d)
  \/ \E outcome \in ModifyOutcomes : ActivateDispatch(outcome)

SpecModify == InitModify /\ [][NextModify]_vars

(***************************************************************************)
(* Address changes on the two endpoint devices of one tunnel               *)
(***************************************************************************)
TeardownDevices == {"d1", "d2"}

\* The requests that change nothing but the address of the WAN interface
AddrRequests ==
  {q \in DeviceRequests :
     q.isApproved /\ q.hasInterfaces /\ q.isAssigned /\ q.addr # ""}

InitTeardown ==
  /\ tunnelIds = 1
  /\ tunnels = <<TrackedTunnel(1, TRUE)>>
  /\ devices = [d \in Devices |-> InitDevice(TRUE)]
  /\ jobs = << >>
  /\ creq = [r \in Reqs |-> IdleRequest]
  /\ dreq = [k \in Dels |-> IdleDelete]
  /\ puts = [p \in Puts |-> IdlePut]
  /\ limiter = [d \in Devices |-> FreshKey]
  /\ pass = NoPass
  /\ notifications = << >>

NextTeardown ==
  \/ \E p \in Puts, d \in TeardownDevices, req \in AddrRequests : PutTxn(p, d, req)
  \/ \E p \in Puts : PutApply(p)
  \/ \E p \in Puts : PutFind(p)
  \/ \E p \in Puts, outcome \in ModifyOutcomes : PutQueue(p, outcome)
  \/ \E j \in DOMAIN jobs, outcome \in QueueOutcomes : ModifyComplete(j, outcome)

SpecTeardown == InitTeardown /\ [][NextTeardown]_vars

(***************************************************************************)
(* Modifications of one approved device, one after another, with every     *)
(* interface edit: the address, the assignment and the path labels         *)
(***************************************************************************)
InterfaceRequests == {q \in AllDeviceRequests : q.isApproved /\ q.hasInterfaces}

\* The interface of d1 is assigned, with tunnel 1 on it (with or without a
\* path label), or unassigned
InitInterface ==
  /\ \E asg \in BOOLEAN, lbl \in {"none", "Tunnel"} :
       /\ asg \/ lbl = "none"
       /\ tunnels = IF asg THEN <<[TrackedTunnel(1, TRUE) EXCEPT !.pathlabel = lbl]>>
                    ELSE << >>
       /\ tunnelIds = IF asg THEN 1 ELSE NoDoc
       /\ devices = [d \in Devices |->
            IF d = "d1"
              THEN [InitDevice(TRUE) EXCEPT !.wan.isAssigned = asg,
                      !.wan.pathlabels = {lbl} \ {"none"}]
            ELSE IF d = "d2"
              THEN [InitDevice(TRUE) EXCEPT !.wan.pathlabels = {lbl} \ {"none"}]
            ELSE InitDevice(TRUE)]
  /\ jobs = << >>
  /\ creq = [r \in Reqs |-> IdleRequest]
  /\ dreq = [k \in Dels |-> IdleDelete]
  /\ puts = [p \in Puts |-> IdlePut]
  /\ limiter = [d \in Devices |-> FreshKey]
  /\ pass = NoPass
  /\ notifications = << >>

\* The user sends a request after the earlier ones have returned
PutReturned(p) == puts[p].pc \in {"done", "failed", "rejected"}

PutTxnInTurn(p, d, req) ==
  /\ \A q \in Puts : q < p => PutReturned(q)
  /\ PutTxn(p, d, req)

NextInterface ==
  \/ \E p \in Puts, d \in PutDevices, req \in InterfaceRequests :
       PutTxnInTurn(p, d, req)
  \/ \E p \in Puts : PutApply(p)
  \/ \E p \in Puts : PutFind(p)
  \/ \E p \in Puts, outcome \in ModifyOutcomes : PutQueue(p, outcome)
  \/ \E j \in DOMAIN jobs, outcome \in QueueOutcomes : ModifyComplete(j, outcome)

SpecInterface == InitInterface /\ [][NextInterface]_vars

(***************************************************************************)
(* Modifications of the two endpoint devices of one tunnel, one after      *)
(* another, with changes of the address and of the assignment             *)
(***************************************************************************)
\* The requests that change the address or the assignment of the WAN
\* interface
EndpointRequests == InterfaceRequests \cap DeviceRequests

NextEndpoints ==
  \/ \E p \in Puts, d \in TeardownDevices, req \in EndpointRequests :
       PutTxnInTurn(p, d, req)
  \/ \E p \in Puts : PutApply(p)
  \/ \E p \in Puts : PutFind(p)
  \/ \E p \in Puts, outcome \in ModifyOutcomes : PutQueue(p, outcome)
  \/ \E j \in DOMAIN jobs, outcome \in QueueOutcomes : ModifyComplete(j, outcome)

SpecEndpoints == InitTeardown /\ [][NextEndpoints]_vars

(***************************************************************************)
(* A pass of the event engine over the facts a device reports              *)
(***************************************************************************)
ReportDevices == {"d1", "d2"}

\* The interface facts of a report, written to the device document
PersistFacts(doc, upd) ==
  [doc EXCEPT !.wan.hasIpOnDevice = (upd.IPv4 # ""),
              !.wan.PublicPort = IF upd.IPv4 # "" THEN upd.public_port ELSE @]

\* A device reports its interface: the handler reads the device document and
\* creates an Events instance; it writes the reported facts to the document
\* before the events are checked (first) or after.  The model keeps the
\* jobs and notifications of the running pass only.
Report(d, upd, first) ==
  /\ pass.phase = "idle"
  /\ pass' = [phase |-> "limiter", dev |-> d, upd |-> upd, orig |-> devices[d],
              ev |-> NewEvents, persisted |-> first]
  /\ devices' = IF first THEN [devices EXCEPT ![d] = PersistFacts(@, upd)]
                ELSE devices
  /\ jobs' = << >>
  /\ notifications' = << >>
  /\ UNCHANGED <<tunnels, tunnelIds, creq, dreq, puts, limiter>>

\* isPublicPortChanged(origIfc, updatedIfc)
isPublicPortChanged(origIfc, upd) ==
  upd.IPv4 # "" /\ origIfc.PublicPort # upd.public_port

\* checkIfToTriggerEvent, lines 624-635: a change of the public port is
\* counted by the limiter; publicInfoRateLimitIsReleased or
\* publicInfoIsRateLimited follows its answer
CheckPublicInfo ==
  /\ pass.phase = "limiter"
  /\ LET d == pass.dev
         use == LimiterUse(d)
     IN  IF pass.orig.wan.isAssigned /\ isPublicPortChanged(pass.orig.wan, pass.upd)
           THEN /\ limiter' = [limiter EXCEPT ![d] = use.key]
                /\ LET s == IF use.releasedNow
                              THEN removePendingStateFromTunnels(Store, d, WanOf(d),
                                                                 limiter')
                            ELSE IF ~use.allowed /\ use.blockedNow
                              THEN setPendingStateToTunnels(Store, d, WanOf(d),
                                     publicPortHighRate(WanOf(d), d), FALSE)
                            ELSE Store
                   IN  SetStore(s) /\ pass' = [pass EXCEPT !.phase = "ip", !.ev = s.ev]
           ELSE /\ pass' = [pass EXCEPT !.phase = "ip"]
                /\ UNCHANGED <<tunnels, devices, jobs, notifications, limiter>>
  /\ UNCHANGED <<tunnelIds, creq, dreq, puts>>

\* checkIfToTriggerEvent, lines 637-643: interfaceIpMissing or
\* interfaceIpExists
CheckIp ==
  /\ pass.phase = "ip"
  /\ LET d == pass.dev
         s == IF ~pass.orig.wan.isAssigned THEN Store
              ELSE IF pass.upd.IPv4 = "" THEN interfaceIpMissing(Store, d, pass.orig)
              ELSE interfaceIpExists(Store, d, pass.orig, pass.upd, limiter)
     IN  SetStore(s) /\ pass' = [pass EXCEPT !.phase = "dispatch", !.ev = s.ev]
  /\ UNCHANGED <<tunnelIds, creq, dreq, puts, limiter>>

\* The end of the pass: sendTunnelsRemoveJobs and sendTunnelsCreateJobs call
\* sendRemoveTunnelsJobs and reconstructTunnels, which tunnels.js and
\* modifyDevice.js do not export, so the call throws when the set is not
\* empty; otherwise apply runs for every changed device
Dispatch(outcome) ==
  /\ pass.phase = "dispatch"
  /\ LET s0 == IF pass.persisted THEN Store
               ELSE [Store EXCEPT !.devices[pass.dev] = PersistFacts(@, pass.upd)]
     IN  IF pass.ev.pendingTunnels # {} \/ pass.ev.activeTunnels # {}
           THEN SetStore(s0)
           ELSE SetStore(ApplyChanged(s0, pass.ev.changedDevices, s0.devices, outcome))
  /\ pass' = NoPass
  /\ UNCHANGED <<tunnelIds, creq, dreq, puts, limiter>>

\* Time passes: the window of a key ends, and with it the block of the key
LimiterExpire(d) ==
  /\ limiter[d].points > 0 \/ limiter[d].blocked
  /\ limiter' = [limiter EXCEPT ![d] =
       [points |-> 0, blocked |-> FALSE, expired |-> @.blocked \/ @.expired]]
  /\ UNCHANGED <<tunnels, tunnelIds, devices, jobs, creq, dreq, puts, pass,
                 notifications>>

(***************************************************************************)
(* SpecEvents: reports of d1 and d2, the limiter, the activation of        *)
(* pending tunnels                                                         *)
(***************************************************************************)
\* Tunnel 1 between d1 and d2, peer tunnel 2 of d1, a static route of d1
\* through tunnel 1, and a static route of d1 and of d2 with its gateway in
\* the subnet of the WAN interface
PeerTunnel(n) ==
  [NewTunnelDoc(n) EXCEPT !.isActive = TRUE, !.deviceA = "d1",
     !.interfaceA = WanOf("d1"), !.peer = TRUE]

InitEvents ==
  /\ tunnelIds = 2
  /\ tunnels = <<TrackedTunnel(1, TRUE), PeerTunnel(2)>>
  /\ devices = [d \in Devices |->
       IF d = "d1"
         THEN [InitDevice(TRUE) EXCEPT
                 !.staticroutes = InitRoutes("active") \cup {RouteInSubnet}]
       ELSE IF d = "d2"
         THEN [InitDevice(TRUE) EXCEPT !.staticroutes = {RouteInSubnet}]
       ELSE InitDevice(TRUE)]
  /\ jobs = << >>
  /\ creq = [r \in Reqs |-> IdleRequest]
  /\ dreq = [k \in Dels |-> IdleDelete]
  /\ puts = [p \in Puts |-> IdlePut]
  /\ limiter = [d \in Devices |-> FreshKey]
  /\ pass = NoPass
  /\ notifications = << >>

NextEvents ==
  \/ \E d \in ReportDevices, upd \in Facts, first \in BOOLEAN : Report(d, upd, first)
  \/ CheckPublicInfo
  \/ CheckIp
  \/ \E outcome \in ModifyOutcomes : Dispatch(outcome)
  \/ \E d \in ReportDevices : LimiterExpire(d)
  \/ \E d \in ReportDevices : ActivateStart(d)
  \/ \E outcome \in ModifyOutcomes : ActivateDispatch(outcome)

SpecEvents == InitEvents /\ [][NextEvents]_vars

(***************************************************************************)
(* SpecRelease: the passes over the reports of d1 and the periodic task;   *)
(* the task keeps running and a started pass ends, whether or not the      *)
(* device goes on reporting                                                *)
(***************************************************************************)
NextRelease ==
  \/ \E upd \in Facts, first \in BOOLEAN : Report("d1", upd, first)
  \/ CheckPublicInfo
  \/ CheckIp
  \/ Dispatch("ok")
  \/ LimiterExpire("d1")
  \/ \E d \in Devices \cup {None} : runTask(d)
  \/ ActivateDispatch("ok")

SpecRelease ==
  /\ InitEvents /\ [][NextRelease]_vars
  /\ WF_vars(Dispatch("ok")) /\ WF_vars(ActivateDispatch("ok"))
  /\ SF_vars(\E d \in Devices \cup {None} : runTask(d))

(***************************************************************************)
(* The reports of two devices when the static route of d1 through the      *)
(* tunnel names the WAN interface of d1 (a route with ifname)              *)
(***************************************************************************)
InitOnLink ==
  /\ tunnelIds = 2
  /\ tunnels = <<TrackedTunnel(1, TRUE), PeerTunnel(2)>>
  /\ devices = [d \in Devices |->
       IF d = "d1"
         THEN [InitDevice(TRUE) EXCEPT
                 !.staticroutes = {[RouteVia(1) EXCEPT !.ifname = WanOf("d1")]}]
         ELSE InitDevice(TRUE)]
  /\ jobs = << >>
  /\ creq = [r \in Reqs |-> IdleRequest]
  /\ dreq = [k \in Dels |-> IdleDelete]
  /\ puts = [p \in Puts |-> IdlePut]
  /\ limiter = [d \in Devices |-> FreshKey]
  /\ pass = NoPass
  /\ notifications = << >>

SpecOnLink == InitOnLink /\ [][NextEvents]_vars

(***************************************************************************)
(* The operations that deactivate a tunnel: the deletion of tunnels        *)
(* (oneTunnelDel), the DELETE of the tunnels service and the modification  *)
(* of an endpoint device; d1 may have a static route through the tunnel    *)
(***************************************************************************)
\* TunnelsService.tunnelsIdDELETE, lines 75-97: one update of the document
\* selected by its _id
tunnelsIdDELETE(t) ==
  /\ t \in TunnelIdxs
  /\ tunnels' = [tunnels EXCEPT ![t].isActive = FALSE]
  /\ UNCHANGED <<tunnelIds, devices, jobs, creq, dreq, puts, limiter, pass,
                 notifications>>

InitRemoval ==
  /\ tunnelIds = 1
  /\ tunnels = <<TrackedTunnel(1, TRUE)>>
  /\ \E rt \in {"none", "active"} :
       devices = [d \in Devices |->
         IF d = "d1" THEN [InitDevice(TRUE) EXCEPT !.staticroutes = InitRoutes(rt)]
         ELSE InitDevice(TRUE)]
  /\ jobs = << >>
  /\ creq = [r \in Reqs |-> IdleRequest]
  /\ dreq = [k \in Dels |-> IdleDelete]
  /\ puts = [p \in Puts |-> IdlePut]
  /\ limiter = [d \in Devices |-> FreshKey]
  /\ pass = NoPass
  /\ notifications = << >>

NextRemoval ==
  \/ NextDelete
  \/ NextEndpoints
  \/ \E t \in TunnelIdxs : tunnelsIdDELETE(t)

SpecRemoval == InitRemoval /\ [][NextRemoval]_vars

(***************************************************************************)
(* The user-triggered creation of tunnels together with the passes of the  *)
(* event engine, which share the rate limiter                              *)
(***************************************************************************)
InitShared ==
  /\ tunnelIds \in InitCounters
  /\ tunnels \in IF tunnelIds = NoDoc THEN {<< >>}
                 ELSE {<< >>} \cup {<<TrackedTunnel(tunnelIds, a)>> : a \in BOOLEAN}
  /\ devices = [d \in Devices |-> InitDevice(TRUE)]
  /\ jobs = << >>
  /\ creq = [r \in Reqs |-> IdleRequest]
  /\ dreq = [k \in Dels |-> IdleDelete]
  /\ puts = [p \in Puts |-> IdlePut]
  /\ limiter = [d \in Devices |-> FreshKey]
  /\ pass = NoPass
  /\ notifications = << >>

\* The creation request of the shared specification: one request for the
\* tunnel between the two reporting devices
SharedRequest == 1
SharedDevSet == {"d1", "d2"}

\* The device whose reports are processed while the request runs
SharedReportDevices == {"d1"}

NextShared ==
  \/ \E d \in SharedReportDevices, upd \in Facts, first \in BOOLEAN :
       Report(d, upd, first)
  \/ CheckPublicInfo
  \/ CheckIp
  \/ \E outcome \in ModifyOutcomes : Dispatch(outcome)
  \/ \E d \in SharedReportDevices : LimiterExpire(d)
  \/ \E d \in SharedReportDevices : ActivateStart(d)
  \/ \E outcome \in ModifyOutcomes : ActivateDispatch(outcome)
  \/ StartRequest(SharedRequest, SharedDevSet)
  \/ \E i \in PromIdxs : FindInactive(SharedRequest, i)
  \/ \E i \in PromIdxs : CounterInc(SharedRequest, i)
  \/ \E i \in PromIdxs : CounterInsert(SharedRequest, i)
  \/ \E i \in PromIdxs : AddTunnel(SharedRequest, i)
  \/ \E i \in PromIdxs, o \in QueueOutcomes : QueueAddJobs(SharedRequest, i, o)
  \/ FinishRequest(SharedRequest)

SpecShared == InitShared /\ [][NextShared]_vars

(***************************************************************************)
(* Claims checked under SpecAlloc                                          *)
(***************************************************************************)
\* The promises of all requests, as <<request, index>>
Proms == {<<r, i>> \in Reqs \X PromIdxs : i \in DOMAIN creq[r].proms}
Prom(x) == creq[x[1]].proms[x[2]]
HasNum(x) == Prom(x).num # NoDoc
Creating(x) == Prom(x).pc \in {"add", "queue"}

\* C1: whatever the interleaving of concurrent creation requests, reuse path
\* and counter path mixed, no two tunnels active at the same time have the
\* same num: the active documents have distinct nums, and no two promises
\* were handed the same num.
C1_UniqueActiveNum ==
  /\ \A i, j \in TunnelIdxs :
       (i # j /\ tunnels[i].isActive /\ tunnels[j].isActive)
         => tunnels[i].num # tunnels[j].num
  /\ \A x, y \in Proms :
       (x # y /\ HasNum(x) /\ HasNum(y)) => Prom(x).num # Prom(y).num

\* C1 witness: one promise on the reuse path and one on the counter path are
\* creating their tunnels at the same time
C1_Witness ==
  \E x, y \in Proms :
    /\ Creating(x) /\ Creating(y)
    /\ Prom(x).via = "reuse" /\ Prom(y).via \in {"counter1", "counter2"}

\* C9 as stated: every num handed out satisfies 0 <= num < 15000
C9_Original ==
  \A x \in Proms : HasNum(x) => (0 <= Prom(x).num /\ Prom(x).num < MaxTunnels)

\* C9 amended: every num handed out satisfies 1 <= num <= 15000 (the filter
\* bounds the counter before the increment, the allocator returns it after)
C9_NumInRange ==
  /\ \A x \in Proms : HasNum(x) => (1 <= Prom(x).num /\ Prom(x).num <= MaxTunnels)
  /\ \A i \in TunnelIdxs : 1 <= tunnels[i].num /\ tunnels[i].num <= MaxTunnels

\* C9 witness: the counter path handed out the number 15000
C9_Witness ==
  \E x \in Proms : Prom(x).num = MaxTunnels /\ Prom(x).via = "counter1"

Mismatched(S) ==
  \E a, b \in S : ~routerVersionsCompatible(RouterVersion(a), RouterVersion(b))

NoTunnelBetween(S) ==
  \A i \in TunnelIdxs :
    ~(tunnels[i].isActive /\ tunnels[i].deviceA \in S /\ tunnels[i].deviceB \in S)

MismatchOutcome(r, status) ==
  (creq[r].pc = "done" /\ Mismatched(creq[r].sel)) =>
     /\ creq[r].result.status = status
     /\ creq[r].result.ids = {}
     /\ ReasonMismatch \in creq[r].result.reasons
     /\ creq[r].proms = << >>
     /\ NoTunnelBetween(creq[r].sel)

\* C10 as stated: a creation request for two devices with incompatible router
\* versions returns 'partially completed', no job ids, the mismatch reason, and
\* creates no tunnel
C10_Original == \A r \in Reqs : MismatchOutcome(r, "partially completed")

\* C10 amended: such a request returns status 'completed' (no promise was
\* created, so none failed), no job ids, the mismatch reason, and creates no
\* tunnel
C10_MismatchCompleted == \A r \in Reqs : MismatchOutcome(r, "completed")

\* C10 witness: a request for a mismatched pair has returned
C10_Witness ==
  \E r \in Reqs : creq[r].pc = "done" /\ Mismatched(creq[r].sel)

(***************************************************************************)
(* Claims checked under SpecModify                                         *)
(***************************************************************************)
QueuedModifyJobs(d) ==
  {j \in DOMAIN jobs : IsQueuedModify(j) /\ jobs[j].device = d}

\* C2: at any time a device has at most one modify-device job in flight,
\* whether the modification comes from devicesIdPUT or from the apply call of
\* activatePendingTunnelsOfDevice
C2_OneModifyJobInFlight ==
  \A d \in Devices : Cardinality(QueuedModifyJobs(d)) <= 1

\* A terminal callback (complete, error, removed) of job j fires in this step
Terminates(j) == IsQueuedModify(j) /\ jobs'[j].state # "queued"

\* C3: pendingDevModification is false immediately before a modify job is
\* queued for the device (so it is never set twice) and false after every
\* terminal callback of the job
C3_FlagFalseAroundJob ==
  [][/\ \A p \in Puts :
          (puts[p].pc = "apply" /\ puts'[p].pc = "find")
             => ~devices[puts[p].dev].pendingDevModification
     /\ \A j \in DOMAIN jobs :
          Terminates(j) => ~devices'[jobs[j].device].pendingDevModification]_vars

\* The routes and interfaces of a device document
DeviceConfig(doc) == [wan |-> transformInterfaces(doc.wan), routes |-> RouteKeys(doc)]

\* C4: when a modify-device job ends with an error or is removed from the
\* queue, the persisted device is rolled back to the snapshot taken before the
\* change (routes and interfaces)
C4_RollbackOnFailure ==
  [][\A j \in DOMAIN jobs :
       (IsQueuedModify(j) /\ jobs'[j].state \in {"failed", "removed"})
          => DeviceConfig(devices'[jobs[j].device]) = DeviceConfig(jobs[j].origDevice)]_vars

\* The request of p is the only operation that has acted on the device
OnlyRequest(p) ==
  /\ \A q \in Puts \ {p} : puts[q].pc = "idle"
  /\ pass.phase = "idle"

Eligible(i) ==
  LET t == tunnels[i]
  IN  /\ devices[t.deviceA].wan.hasIpOnDevice
      /\ ~t.peer => /\ devices[t.deviceB].wan.hasIpOnDevice
                    /\ ~isBlocked(t.deviceA)
                    /\ ~isBlocked(t.deviceB)

\* The step evaluates the pending state of tunnels
EvaluationStep == pass.phase \in {"limiter", "ip"} \/ pass'.phase = "activated"

OnlyReasonChanged(i) ==
  tunnels'[i] = [tunnels[i] EXCEPT !.pendingReason = tunnels'[i].pendingReason]

\* C5: a pending tunnel is promoted to active only if both its interfaces have
\* an IP on the device and, for a tunnel that is no peer tunnel, neither key
\* is blocked by the limiter; otherwise it stays pending and an evaluation
\* changes at most its pendingReason
C5_PromotionOnlyIfEligible ==
  [][\A i \in TunnelIdxs :
       (tunnels[i].isPending /\ ~Eligible(i))
          => /\ tunnels'[i].isPending
             /\ EvaluationStep => OnlyReasonChanged(i)]_vars

\* C5 witness: in the running pass a tunnel was promoted, and the other
\* tunnel of the interface is still pending
C5_Witness ==
  /\ 1 \in pass.ev.activeTunnels /\ ~tunnels[1].isPending
  /\ tunnels[2].isPending

TunnelNotes(notes, n) ==
  SelectSeq(notes, LAMBDA x : x.kind = "tunnel-pending" /\ x.subject = n)

\* The limiter has just blocked the key of the reporting device
BlockedNowStep ==
  /\ pass.phase = "limiter"
  /\ ~limiter[pass.dev].blocked /\ limiter'[pass.dev].blocked

\* The step handles an event that sets tunnels to pending
PendingCausingStep ==
  \/ BlockedNowStep
  \/ pass.phase = "ip" /\ pass.upd.IPv4 = "" /\ pass.orig.wan.isAssigned

\* C6: when an event that sets tunnels to pending meets a tunnel that is
\* pending already, no tunnel notification is sent, the tunnel is not added to
\* the set remove jobs are sent for, no job is queued, and nothing of the
\* tunnel changes but, when the new reason differs, its pendingReason
C6_RepeatedPendingIsSilent ==
  [][PendingCausingStep =>
       \A i \in TunnelIdxs :
         (tunnels[i].isActive /\ tunnels[i].isPending)
           => /\ TunnelNotes(notifications', tunnels[i].num)
                   = TunnelNotes(notifications, tunnels[i].num)
              /\ tunnels[i].num \in pass'.ev.pendingTunnels
                   => tunnels[i].num \in pass.ev.pendingTunnels
              /\ jobs' = jobs
              /\ OnlyReasonChanged(i)]_vars

\* C6 witness: d1 reported that its address is missing; tunnel 1 was pending
\* before (the pass did not add it to its set) and carries the new reason
C6_Witness ==
  /\ pass.phase = "dispatch" /\ pass.dev = "d1" /\ pass.upd.IPv4 = ""
  /\ tunnels[1].isPending /\ tunnels[1].pendingReason = interfaceHasNoIp("d1", "d1")
  /\ 1 \notin pass.ev.pendingTunnels
  /\ limiter["d1"].blocked

OnInterface(i, d) ==
  \/ tunnels[i].deviceA = d /\ tunnels[i].interfaceA = WanOf(d)
  \/ tunnels[i].deviceB = d /\ tunnels[i].interfaceB = WanOf(d)

\* C7: when the limiter reports that the key of an interface has just been
\* blocked, every active tunnel of the interface that is no peer tunnel
\* becomes pending with the public-port-high-rate reason, and no peer tunnel
\* changes
C7_BlockedNowSetsPending ==
  [][BlockedNowStep =>
       \A i \in TunnelIdxs :
         IF tunnels[i].peer THEN tunnels'[i] = tunnels[i]
         ELSE (tunnels[i].isActive /\ OnInterface(i, pass.dev))
                => /\ tunnels'[i].isPending
                   /\ tunnels'[i].pendingReason
                        = publicPortHighRate(WanOf(pass.dev), pass.dev)]_vars

\* C7 witness: the key of d1 was blocked in the running pass, tunnel 1 was
\* set to pending by it and the active peer tunnel 2 was not
C7_Witness ==
  /\ pass.phase = "ip" /\ pass.dev = "d1" /\ limiter["d1"].blocked
  /\ 1 \in pass.ev.pendingTunnels
  /\ tunnels[1].isPending
  /\ tunnels[1].pendingReason = publicPortHighRate("d1", "d1")
  /\ tunnels[2].isActive /\ ~tunnels[2].isPending

\* The step handles the report of an assigned WAN interface without an IP
IpMissingStep ==
  /\ pass.phase = "ip" /\ pass'.phase = "dispatch" /\ pass.upd.IPv4 = ""
  /\ pass.orig.wan.isAssigned /\ pass.orig.wan.type = "WAN"

\* C11: when a device reports an assigned WAN interface without an IP, every
\* active tunnel of the interface, on side A or side B, is pending afterwards
\* with the reason that names the interface and the device
C11_IpMissingSetsTunnelsPending ==
  [][IpMissingStep =>
       \A i \in TunnelIdxs :
         (tunnels[i].isActive /\ OnInterface(i, pass.dev))
           => /\ tunnels'[i].isPending
              /\ tunnels'[i].pendingReason
                   = interfaceHasNoIp(WanOf(pass.dev), pass.dev)]_vars

\* C11 witness: d2, side B of tunnel 1, reported its interface without an IP
\* and the pass set the tunnel to pending
C11_Witness ==
  /\ pass.phase = "dispatch" /\ pass.dev = "d2" /\ pass.upd.IPv4 = ""
  /\ 1 \in pass.ev.pendingTunnels
  /\ tunnels[1].isPending /\ tunnels[1].pendingReason = interfaceHasNoIp("d2", "d2")

\* The static routes of the reporting device with their gateway in the subnet
\* of the interface are pending after the step
SubnetRoutesPending ==
  \A r \in devices[pass.dev].staticroutes :
    (r.gateway = SubnetGateway /\ pass.orig.wan.addr # "")
      => \E r2 \in devices'[pass.dev].staticroutes :
           r2.gateway = r.gateway /\ r2.isPending

\* C12 as stated: when a device reports an interface without an IP, every
\* static route of the device with its gateway in the interface's subnet is
\* pending afterwards
C12_Original ==
  [][(pass.phase = "ip" /\ pass'.phase = "dispatch" /\ pass.upd.IPv4 = "")
       => SubnetRoutesPending]_vars

\* C12 amended: this holds for an assigned interface of a device whose agent
\* has a major version above 4
C12_IpMissingSetsRoutesPending ==
  [][(/\ pass.phase = "ip" /\ pass'.phase = "dispatch" /\ pass.upd.IPv4 = ""
      /\ pass.orig.wan.isAssigned
      /\ AgentVersion(pass.dev) > 4) => SubnetRoutesPending]_vars

\* C12 witness: d1 reported its interface without an IP and its static route
\* with the gateway in the subnet is pending for that reason
C12_Witness ==
  /\ pass.phase = "dispatch" /\ pass.dev = "d1" /\ pass.upd.IPv4 = ""
  /\ \E r \in devices["d1"].staticroutes :
       /\ r.gateway = SubnetGateway /\ r.isPending
       /\ r.pendingReason = interfaceHasNoIp("d1", "d1")

\* The two loopback addresses of tunnel n
Loopbacks(n) == {generateTunnelParams(n).ip1, generateTunnelParams(n).ip2}

ReconstructDispatches(js, n) ==
  {j \in DOMAIN js : /\ js[j].method = "tunnels" /\ js[j].tunnelId = n
                     /\ js[j].target = "deviceAconf"}

\* The pass of a report with the IP restored ends, having returned tunnels to
\* active
RestoreEnds ==
  /\ pass.phase = "dispatch" /\ pass'.phase = "idle" /\ pass.upd.IPv4 # ""
  /\ pass.ev.activeTunnels # {}

\* The tunnels the pass returned to active are active, and so are the static
\* routes of the device with their gateway in the interface's subnet
RestoredState ==
  /\ \A i \in TunnelIdxs :
       tunnels[i].num \in pass.ev.activeTunnels => ~tunnels'[i].isPending
  /\ \A r \in devices'[pass.dev].staticroutes :
       r.gateway = SubnetGateway => ~r.isPending

\* C14: the report in which the interface has its IP again returns the
\* tunnel and the routes in the subnet to active and results in exactly one
\* reconstruct-tunnel dispatch for the tunnel
C14_RestoreReconstructsOnce ==
  [][RestoreEnds =>
       /\ RestoredState
       /\ \A n \in pass.ev.activeTunnels :
            Cardinality(ReconstructDispatches(jobs', n)) = 1]_vars

(***************************************************************************)
(* Claims about the teardown and the rebuild of the tunnels of a modified  *)
(* device (SpecTeardown)                                                   *)
(***************************************************************************)
\* The jobs a step has added to the queue
NewJobs == {j \in DOMAIN jobs' : j > Len(jobs)}

\* The teardown jobs for tunnel number n among the jobs a step has added
NewTeardowns(n) ==
  {j \in NewJobs : jobs'[j].method = "deltunnels" /\ jobs'[j].tunnelId = n}

\* C15: while the pendingTunnelModification of a tunnel is set, that is from
\* the moment its teardown is queued until its rebuild is dispatched, no
\* step queues a second teardown job for the tunnel, also when both its
\* endpoint devices are modified concurrently.
C15_NoDuplicateTeardown ==
  [][\A i \in TunnelIdxs :
       tunnels[i].pendingTunnelModification => NewTeardowns(tunnels[i].num) = {}]_vars

\* The modify-device jobs of device d among the jobs a step has added
NewModifyJobs(d) ==
  {j \in NewJobs : jobs'[j].method = "modify" /\ jobs'[j].device = d}

\* Request p runs its transaction on a device that has a modify job queued
TxnWithJobQueued(p) ==
  /\ puts[p].pc = "idle" /\ puts'[p].pc # "idle"
  /\ \E j \in DOMAIN jobs : IsQueuedModify(j) /\ jobs[j].device = puts'[p].dev

\* Request p runs the loop of queueModifyDeviceJob for a changed interface
\* and its find has returned tunnel i with pendingTunnelModification set
QueueWithFlaggedTunnel(p, i) ==
  /\ puts[p].pc = "queue" /\ puts'[p].pc # "queue"
  /\ i \in DOMAIN puts[p].found
  /\ puts[p].found[i].isActive /\ puts[p].found[i].pendingTunnelModification
  /\ puts[p].dev \in {puts[p].found[i].deviceA, puts[p].found[i].deviceB}
  /\ puts[p].orig.wan.addr # puts[p].upd.wan.addr

Rejected(p) ==
  /\ puts'[p].pc \in {"rejected", "failed"}
  /\ NewJobs = {}

ApplyOfEqualDevice(p) ==
  /\ puts[p].pc = "apply" /\ puts'[p].pc # "apply"
  /\ puts[p].upd = puts[p].orig

\* C20: applying a modification whose desired device equals the original
\* queues no job, returns an empty id list, and leaves pendingDevModification
\* and every tunnel unchanged.
C20_EqualDeviceIsNoOp ==
  [][\A p \in Puts : ApplyOfEqualDevice(p) =>
       /\ jobs' = jobs
       /\ tunnels' = tunnels
       /\ \A d \in Devices :
            devices'[d].pendingDevModification = devices[d].pendingDevModification
       /\ \E r \in puts'[p].ret : r.ids = {}]_vars

C20_Witness ==
  \E p \in Puts :
    /\ puts[p].pc = "done" /\ puts[p].upd = puts[p].orig
    /\ puts[p].ret = {ApplyResult({})}
    /\ jobs = << >>
    /\ ~devices[puts[p].dev].pendingDevModification

(***************************************************************************)
(* Claims about the rate limiter as seen by creation and by the event      *)
(* engine (SpecShared)                                                     *)
(***************************************************************************)
\* The step makes document i a tunnel that is active and not pending
BecomesActive(i) ==
  /\ tunnels'[i].isActive /\ ~tunnels'[i].isPending
  /\ i \in DOMAIN tunnels => ~tunnels[i].isActive \/ tunnels[i].isPending

\* C17: no path, user-triggered or event-triggered, creates, rebuilds or
\* promotes a tunnel that is no peer tunnel as active and not pending while
\* the limiter key of one of its two interfaces is blocked.
C17_NoActiveWhileBlocked ==
  [][\A i \in DOMAIN tunnels' :
       (BecomesActive(i) /\ ~tunnels'[i].peer) =>
         /\ ~limiter'[tunnels'[i].deviceA].blocked
         /\ ~limiter'[tunnels'[i].deviceB].blocked]_vars

(***************************************************************************)
(* Claims about the result of a batch request (SpecBatch)                  *)
(***************************************************************************)
\* Request r returns in this step
Returns(r) == creq[r].pc = "running" /\ creq'[r].pc = "done"

\* The promises of request r whose tunnel number could not be allocated
AllocationFailed(r) ==
  {i \in DOMAIN creq[r].proms :
     creq[r].proms[i].pc = "rejected" /\ creq[r].proms[i].num = NoDoc}

\* The tunnel of a resolved promise is in the collection, active, between the
\* promise's devices, unless a deletion call has started on it
Created(pr) ==
  \E k \in TunnelIdxs :
    /\ tunnels[k].num = pr.num
    /\ \/ /\ tunnels[k].deviceA = pr.dA /\ tunnels[k].deviceB = pr.dB
          /\ tunnels[k].isActive
       \/ \E d \in Dels : dreq[d].tid = k

\* C18: when the allocation of a tunnel number fails for one pair of a batch,
\* the request returns with the other pairs created, with status 'partially
\* completed' and with a reason for the failed pair in its result.
C18_AllocationFailureReported ==
  [][\A r \in Reqs : (Returns(r) /\ AllocationFailed(r) # {}) =>
       /\ \A i \in DOMAIN creq[r].proms :
            creq[r].proms[i].pc = "resolved" => Created(creq[r].proms[i])
       /\ creq'[r].result.status = "partially completed"
       /\ ErrTunnelIdNotFound \in creq'[r].result.reasons]_vars

\* The message of a result tells that `queued` of `requested` were added: when
\* fewer were queued than requested it gives both numbers, otherwise it gives
\* the number queued, if any
Reports(message, queued, requested) ==
  IF queued < requested
    THEN message.kind = "of" /\ message.added = queued /\ message.of = requested
    ELSE \/ message.kind \in {"none", "empty"}
         \/ message.kind = "count" /\ message.added = queued

\* The numbers of a creation result, in jobs and in tunnels
JobsRequested(rq) == 2 * Len(rq.proms)
JobsQueued(rq) == Cardinality(rq.result.ids)
TunnelsQueued(rq) ==
  Cardinality({i \in DOMAIN rq.proms : rq.proms[i].pc = "resolved"})

\* C19: the result of a batch creation or deletion reports the number of
\* jobs queued against the number requested (counted in jobs or in tunnels),
\* and its status is 'partially completed' exactly when fewer jobs were
\* queued than requested.
C19_ResultCountsJobs ==
  /\ \A r \in Reqs : creq[r].pc = "done" =>
       /\ \/ Reports(creq[r].result.message, JobsQueued(creq[r]),
                      JobsRequested(creq[r]))
          \/ Reports(creq[r].result.message, TunnelsQueued(creq[r]),
                      Len(creq[r].proms))
       /\ creq[r].result.status = "partially completed"
            <=> JobsQueued(creq[r]) < JobsRequested(creq[r])
  /\ \A k \in Dels : dreq[k].pc \in {"done", "failed"} =>
       LET queued == IF dreq[k].pc = "done" THEN 1 ELSE 0
       IN  /\ Reports(dreq[k].result.message, queued, 1)
           /\ dreq[k].result.status = "partially completed" <=> queued < 1

(***************************************************************************)
(* Claims about the edits of an interface (SpecInterface)                  *)
(***************************************************************************)
\* The messages of a modify-device job that configure an interface
InterfaceMessages == {"modify-interface", "add-interface", "remove-interface"}

\* Request p edits an interface that is unassigned before and after
EditsUnassigned(p) ==
  /\ ~puts[p].orig.wan.isAssigned /\ ~puts[p].upd.wan.isAssigned
  /\ puts[p].upd.wan # puts[p].orig.wan

\* Request p makes a step of apply
ApplyStep(p) ==
  /\ puts[p].pc \in {"apply", "find", "queue"}
  /\ puts'[p].pc # puts[p].pc

\* C21: the edits of an interface that is unassigned before and after the
\* change are not forwarded to the device: no modify-device job of the
\* request carries a task for the interface, and when nothing else changed
\* the request queues no job.
C21_UnassignedEditsNotForwarded ==
  [][\A p \in Puts : (ApplyStep(p) /\ EditsUnassigned(p)) =>
       /\ \A j \in NewModifyJobs(puts[p].dev) :
            jobs'[j].tasks \cap InterfaceMessages = {}
       /\ puts[p].upd.staticroutes = puts[p].orig.staticroutes =>
            jobs' = jobs /\ puts'[p].pc = "done"]_vars

C21_Witness ==
  \E p \in Puts :
    /\ puts[p].pc = "done"
    /\ ~puts[p].orig.wan.isAssigned /\ ~puts[p].upd.wan.isAssigned
    /\ puts[p].upd.wan.addr # puts[p].orig.wan.addr
    /\ \E j \in DOMAIN jobs :
         /\ jobs[j].method = "modify" /\ j \in UNION {r.ids : r \in puts[p].ret}
         /\ jobs[j].tasks = {"add-route"}

(***************************************************************************)
(* Claims about repeated requests (SpecRepeat)                             *)
(***************************************************************************)
\* Request r is started for a pair of interfaces that has an active tunnel
StartsForExistingTunnel(r) ==
  /\ creq[r].pc = "idle" /\ creq'[r].pc = "running"
  /\ \E k \in TunnelIdxs :
       /\ tunnels[k].isActive /\ ~tunnels[k].peer
       /\ creq'[r].sel = {tunnels[k].deviceA, tunnels[k].deviceB}

\* Call k is made for a tunnel that is inactive
DeletesInactive(k) ==
  /\ dreq[k].pc = "idle" /\ dreq'[k].pc # "idle"
  /\ ~tunnels[dreq'[k].tid].isActive

\* C22: a creation request for a pair of interfaces that has an active tunnel
\* builds no tunnel promise and keeps the reason 'Some tunnels exist
\* already.', and its result has no job id and carries that reason; a
\* deletion call for an inactive tunnel fails with 'Tunnel not found'.  Neither
\* queues a job or changes a tunnel.
C22_RepeatedRequestIsNoOp ==
  [][/\ \A r \in Reqs :
         /\ StartsForExistingTunnel(r) =>
              /\ creq'[r].proms = << >> /\ creq'[r].reasons = {ReasonExists}
              /\ jobs' = jobs /\ tunnels' = tunnels
         /\ (Returns(r) /\ creq[r].proms = << >>) =>
              /\ creq'[r].result.ids = {}
              /\ creq'[r].result.reasons = creq[r].reasons
              /\ creq'[r].result.message.kind = "none"
              /\ jobs' = jobs /\ tunnels' = tunnels
     /\ \A k \in Dels : DeletesInactive(k) =>
         /\ dreq'[k].pc = "failed"
         /\ dreq'[k].result.reasons = {"Tunnel not found"}
         /\ jobs' = jobs /\ tunnels' = tunnels]_vars

\* A second request for the pair of a tunnel the first one created has
\* returned, and a deletion call for a deleted tunnel has failed
C22_Witness ==
  /\ \E r \in Reqs :
       /\ creq[r].pc = "done" /\ creq[r].result.reasons = {ReasonExists}
       /\ creq[r].result.ids = {}
  /\ \E k \in Dels :
       dreq[k].pc = "failed" /\ dreq[k].result.reasons = {"Tunnel not found"}

(***************************************************************************)
(* Claims about the dispatches and the notifications of a pass             *)
(* (SpecEvents)                                                            *)
(***************************************************************************)
\* The pass ends in this step
PassEnds == pass.phase = "dispatch" /\ pass'.phase = "idle"

\* C23: a site-to-site tunnel that became pending in a pass is removed from
\* its devices: when the pass ends, a tunnel-remove job for it is among the
\* jobs sent.
C23_PendingTunnelIsRemoved ==
  [][PassEnds =>
       \A i \in TunnelIdxs :
         (tunnels[i].num \in pass.ev.pendingTunnels /\ ~tunnels[i].peer)
           => NewTeardowns(tunnels[i].num) # {}]_vars

\* Tunnel i goes from active to pending, or from pending back to active
BecomesPending(i) == ~tunnels[i].isPending /\ tunnels'[i].isPending
BecomesPromoted(i) == tunnels[i].isPending /\ ~tunnels'[i].isPending

\* C24: every step in which a tunnel goes from active to pending or from
\* pending back to active adds a notification record.
C24_TransitionsNotify ==
  [][\A i \in TunnelIdxs :
       (tunnels[i].isActive /\ (BecomesPending(i) \/ BecomesPromoted(i)))
         => Len(notifications') > Len(notifications)]_vars

\* The end of a pass of the event engine or of an activation
DispatchEnds ==
  pass.phase \in {"dispatch", "activated"} /\ pass'.phase = "idle"

\* The apply calls the end of the pass issues for device d: one for every
\* entry of the device in the list of changed devices
ModifyDispatches(d) ==
  {k \in DOMAIN pass.ev.changedDevices : pass.ev.changedDevices[k].id = d}

AddJobsOf(n, target) ==
  {j \in DOMAIN jobs : /\ jobs[j].method = "tunnels" /\ jobs[j].tunnelId = n
                       /\ jobs[j].target = target}

\* The flag of a side is set exactly when the callback of the side has run
SideFollowsCallback(i, target, flag) ==
  AddJobsOf(tunnels[i].num, target) # {}
    => (flag <=> \E j \in AddJobsOf(tunnels[i].num, target) :
                   jobs[j].state = "completed")

\* C26: the two add-tunnel jobs of a tunnel complete in either order: the
\* flag of a side is true exactly when the callback of that side has run, so
\* after both callbacks both flags are true and after only one only the flag
\* of that side is.
C26_FlagsFollowCallbacks ==
  \A i \in TunnelIdxs :
    /\ SideFollowsCallback(i, "deviceAconf", tunnels[i].deviceAconf)
    /\ SideFollowsCallback(i, "deviceBconf", tunnels[i].deviceBconf)

\* C26 witness: of the two add-tunnel jobs of a tunnel, that of side B has
\* completed first, and only deviceBconf is set
C26_Witness ==
  \E i \in TunnelIdxs :
    /\ \E j \in AddJobsOf(tunnels[i].num, "deviceAconf") : jobs[j].state = "queued"
    /\ \E j \in AddJobsOf(tunnels[i].num, "deviceBconf") : jobs[j].state = "completed"
    /\ tunnels[i].deviceBconf /\ ~tunnels[i].deviceAconf

\* The tunnel between d1 and d2 is pending for the rate limit of d1's key
\* only: both interfaces have their IP and the limiter has released the key
ReleasedButPending ==
  /\ tunnels[1].isActive /\ tunnels[1].isPending
  /\ tunnels[1].pendingReason = publicPortHighRate(WanOf("d1"), "d1")
  /\ devices["d1"].wan.hasIpOnDevice /\ devices["d2"].wan.hasIpOnDevice
  /\ ~limiter["d1"].blocked /\ ~limiter["d2"].blocked

\* C27: a tunnel that is pending only because of a rate-limit block is
\* eventually promoted to active once the limiter has released the block,
\* while the periodic release task keeps running and no handler of a report
\* stops half way, unless an interface loses its IP or the key is blocked
\* again first.
C27_ReleasedTunnelIsPromoted ==
  []<>(pass.phase = "idle")
    => (ReleasedButPending
          ~> \/ ~tunnels[1].isPending
             \/ ~devices["d1"].wan.hasIpOnDevice
             \/ ~devices["d2"].wan.hasIpOnDevice
             \/ limiter["d1"].blocked \/ limiter["d2"].blocked)

\* A request is between the write of the flag and the end of its apply call
ApplyInProgress(d) ==
  \E p \in Puts : puts[p].dev = d /\ puts[p].pc \in {"find", "queue"}

\* C28: whenever pendingDevModification of a device is set, a modify job of
\* the device is in flight or the apply call that set the flag is still
\* running: the flag does not remain set when apply queues no job, because
\* queueModifyDeviceJob throws or because the task list it builds is empty.
C28_FlagImpliesJobInFlight ==
  \A d \in Devices :
    devices[d].pendingDevModification
      => (QueuedModifyJobs(d) # {} \/ ApplyInProgress(d))

\* C29: no step queues an add-tunnel job for a tunnel whose isPending is
\* true: a pending tunnel stays off its devices until it is promoted, also
\* when a device of the tunnel is modified and the tunnels of the modified
\* interface are torn down and rebuilt.
C29_NoAddJobWhilePending ==
  [][\A j \in NewJobs : \A i \in TunnelIdxs :
       (jobs'[j].method = "tunnels" /\ jobs'[j].tunnelId = tunnels[i].num)
         => ~tunnels[i].isPending]_vars

\* The creation of promise x failed after it had obtained its number
FailedWithNum(x) == HasNum(x) /\ Prom(x).pc \in {"rejected", "hung"}

\* C30: when the creation of a tunnel fails after its number was obtained,
\* no active tunnel record is left for the number without an add-tunnel job:
\* neither a recycled nor a newly numbered document stays isActive with no
\* add-tunnel job queued.
C30_FailedCreationLeavesNoTunnel ==
  \A x \in Proms :
    FailedWithNum(x)
      => \A k \in DocsWithNum(Prom(x).num) :
           tunnels[k].isActive
             => (AddJobsOf(Prom(x).num, "deviceAconf")
                   \cup AddJobsOf(Prom(x).num, "deviceBconf")) # {}

\* C31: every tunnel-creation promise settles on every path: no promise is
\* left neither resolved nor rejected with no step of its executor to run,
\* also when the setup of the tunnel fails after the retried counter
\* increment.
C31_EveryPromiseSettles ==
  \A x \in Proms : Prom(x).pc # "hung"

\* Add-tunnel job j completes in this step
CompletesAdd(j) ==
  /\ j \in DOMAIN jobs /\ jobs[j].method = "tunnels"
  /\ jobs[j].state = "queued" /\ jobs'[j].state = "completed"

\* Job j was queued for an earlier use of its num: after j the tunnel was
\* deleted (its remove jobs follow j in the queue) and the num was used again
\* (add-tunnel jobs follow the remove jobs)
QueuedBeforeDeletion(j) ==
  \E k, m \in DOMAIN jobs :
    /\ j < k /\ k < m
    /\ jobs[k].method = "deltunnels" /\ jobs[k].tunnelId = jobs[j].tunnelId
    /\ jobs[m].method = "tunnels" /\ jobs[m].tunnelId = jobs[j].tunnelId

\* C32: the completion callback of an add-tunnel job queued before the
\* tunnel was deleted and its num recycled does not mark the new tunnel as
\* configured: the flags of the active tunnel with that num are unchanged.
C32_StaleCallbackIsIgnored ==
  [][\A j \in DOMAIN jobs :
       (CompletesAdd(j) /\ QueuedBeforeDeletion(j))
         => \A i \in DocsWithNum(jobs[j].tunnelId) :
              tunnels[i].isActive
                => /\ tunnels'[i].deviceAconf = tunnels[i].deviceAconf
                   /\ tunnels'[i].deviceBconf = tunnels[i].deviceBconf]_vars

\* The complete callback of a modify-device job that lists tunnel i runs
CompletesJobOf(i) ==
  \E j \in DOMAIN jobs :
    /\ IsQueuedModify(j) /\ jobs'[j].state = "completed"
    /\ i \in jobs[j].tunnels

\* The add-tunnel jobs of tunnel n among the jobs a step has added
NewRebuilds(n) ==
  {j \in NewJobs : jobs'[j].method = "tunnels" /\ jobs'[j].tunnelId = n}

\* The three parts of the order for tunnel i in one step; the last one
\* only for a tunnel that satisfies keeps
RebuildOrder(i, keeps) ==
  /\ \A j \in NewJobs :
       (jobs'[j].method = "modify" /\ i \in jobs'[j].tunnels)
         => /\ tunnels'[i].pendingTunnelModification
            /\ \E k \in DOMAIN jobs' :
                 /\ k < j /\ jobs'[k].method = "deltunnels"
                 /\ jobs'[k].tunnelId = tunnels[i].num
  /\ (tunnels[i].pendingTunnelModification /\ NewRebuilds(tunnels[i].num) # {})
       => CompletesJobOf(i)
  /\ (tunnels[i].pendingTunnelModification
        /\ ~tunnels'[i].pendingTunnelModification /\ keeps)
       => CompletesJobOf(i)

\* C33 as stated: for every tunnel torn down for rebuild by a device
\* modification, the remove-tunnel jobs are queued before the modify-device
\* job that lists it, its add-tunnel jobs are queued only by the complete
\* callback of such a job, and its pendingTunnelModification is cleared only
\* by that callback.
C33_TeardownModifyRebuildOrder ==
  [][\A i \in TunnelIdxs : RebuildOrder(i, TRUE)]_vars

\* C33 amended: the same order, the flag being cleared only by that callback
\* as long as the tunnel is not removed for good; the removal of the tunnel
\* clears the flag too.
C33_RebuildOrderUnlessRemoved ==
  [][\A i \in TunnelIdxs : RebuildOrder(i, tunnels'[i].isActive)]_vars

\* C33 witness: tunnel 1 was torn down by the modification of a device, the
\* remove jobs, the modify job and, after its completion, the add jobs are
\* in the queue in this order, and the flag is cleared
C33_Witness ==
  /\ ~tunnels[1].pendingTunnelModification
  /\ \E k, j, m \in DOMAIN jobs :
       /\ k < j /\ j < m
       /\ jobs[k].method = "deltunnels" /\ jobs[k].tunnelId = 1
       /\ jobs[j].method = "modify" /\ 1 \in jobs[j].tunnels
       /\ jobs[j].state = "completed"
       /\ jobs[m].method = "tunnels" /\ jobs[m].tunnelId = 1

\* The static routes of device d through tunnel n
RoutesThrough(d, n) ==
  {r \in devices[d].staticroutes : r.gateway \in Loopbacks(n)}

\* C34: after any sequence of device reports, a static route whose gateway
\* is a loopback address of a pending tunnel is pending itself, also after
\* the interface of the route got its IP back
C34_RouteOfPendingTunnelIsPending ==
  pass.phase = "idle"
    => \A i \in TunnelIdxs :
         (tunnels[i].isActive /\ tunnels[i].isPending)
           => \A d \in Devices : \A r \in RoutesThrough(d, tunnels[i].num) :
                r.isPending

\* The unordered pair of interfaces of a tunnel document
Ends(t) == {<<t.deviceA, t.interfaceA>>, <<t.deviceB, t.interfaceB>>}

\* C35: there is at most one active tunnel per path label and unordered
\* pair of interfaces, also when two creation requests for the same devices
\* run concurrently (a recycled document counts once addTunnel has written
\* the new tunnel into it)
C35_OneActiveTunnelPerPair ==
  \A i, k \in TunnelIdxs :
    ( /\ i # k
      /\ \A x \in Proms : Prom(x).pc # "add"
      /\ tunnels[i].isActive /\ tunnels[k].isActive
      /\ ~tunnels[i].peer /\ ~tunnels[k].peer
      /\ tunnels[i].pathlabel = tunnels[k].pathlabel )
      => Ends(tunnels[i]) # Ends(tunnels[k])

\* Request p, whose queueModifyDeviceJob returns in this step, takes from the
\* WAN interface of its device the assignment or the path label of tunnel i
LosesTunnel(p, i) ==
  /\ puts[p].pc = "queue" /\ puts'[p].pc = "done"
  /\ tunnels[i].isActive
  /\ puts[p].dev \in {tunnels[i].deviceA, tunnels[i].deviceB}
  /\ puts[p].orig.wan.isAssigned
  /\ \/ ~puts[p].upd.wan.isAssigned
     \/ /\ tunnels[i].pathlabel \in puts[p].orig.wan.pathlabels
        /\ tunnels[i].pathlabel \notin puts[p].upd.wan.pathlabels

C36_WitnessLabel ==
  /\ 1 \in TunnelIdxs
  /\ ~tunnels[1].isActive /\ tunnels[1].pathlabel = "Tunnel"
  /\ "Tunnel" \notin devices["d1"].wan.pathlabels
  /\ devices["d1"].wan.isAssigned
  /\ \E k \in DOMAIN jobs :
       jobs[k].method = "deltunnels" /\ jobs[k].tunnelId = 1
  /\ \A j \in DOMAIN jobs : jobs[j].method # "tunnels"

C37_NoRouteThroughInactiveTunnel ==
  \A i \in TunnelIdxs :
    ~tunnels[i].isActive
      => \A d \in Devices : RoutesThrough(d, tunnels[i].num) = {}

\* The tries of the counter update a promise is in
FirstTry == {"counter1", "insert1"}
SecondTry == {"counter2", "insert2"}

\* Promise x was a promise before the step and is one after it
Lives(x) == x \in Proms /\ x[2] \in DOMAIN creq'[x[1]].proms

\* C38: one allocation makes at most two tries of the counter increment; the
\* second begins only when the first failed with the conflict of the upsert;
\* every other way out of a try is a number or the rejection of the promise,
\* and a failure of the second try is the rejection
C38_AtMostTwoCounterTries ==
  [][\A x \in Reqs \X PromIdxs : Lives(x) =>
       LET pc == Prom(x).pc
           pcn == creq'[x[1]].proms[x[2]].pc
       IN  /\ (pcn = "counter1" /\ pc # pcn) => pc = "find"
           /\ (pcn \in SecondTry /\ pc \notin SecondTry)
                => pc = "insert1" /\ pcn = "counter2" /\ tunnelIds # NoDoc
           /\ (pc \in FirstTry /\ pcn \notin FirstTry)
                => pcn \in {"counter2", "add", "rejected"}
           /\ (pc \in SecondTry /\ pcn \notin SecondTry)
                => pcn \in {"add", "rejected"}
           /\ (pc = "insert2" /\ pcn # pc /\ tunnelIds # NoDoc)
                => pcn = "rejected"
           /\ (pc = "insert2" /\ pcn = "counter2") => FALSE
           /\ pcn = "add" /\ pc # "add" /\ pc # "find"
                => tunnelIds' # tunnelIds]_vars

\* C38 witness: the first try of a promise failed with the conflict, its
\* second try gave the number, and the promise is resolved with the tunnel
C38_Witness ==
  \E x \in Proms :
    /\ Prom(x).via = "counter2" /\ Prom(x).pc = "resolved"
    /\ Prom(x).num = tunnelIds

\* Promise x makes its search in the deleted tunnels in this step
Searches(x) ==
  /\ Lives(x) /\ Prom(x).pc = "find"
  /\ creq'[x[1]].proms[x[2]].pc # "find"

\* C39: the allocator goes to the counter only when the organization has no
\* inactive tunnel at the time of its search; otherwise it reactivates one
\* inactive tunnel, takes its num and leaves the counter unchanged.  The
\* counter changes only in the step of a promise that is at the counter.
C39_RecycleBeforeCounter ==
  [][/\ \A x \in Reqs \X PromIdxs : Searches(x) =>
          LET new == creq'[x[1]].proms[x[2]]
          IN  /\ tunnelIds' = tunnelIds
              /\ IF InactiveDocs = {}
                    THEN new.pc = "counter1" /\ new.num = NoDoc
                         /\ tunnels' = tunnels
                    ELSE /\ new.pc = "add" /\ new.via = "reuse"
                         /\ \E k \in InactiveDocs :
                              /\ new.num = tunnels[k].num
                              /\ tunnels'[k].isActive
                              /\ \A i \in TunnelIdxs \ {k} :
                                   tunnels'[i] = tunnels[i]
                         /\ Len(tunnels') = Len(tunnels)
     /\ tunnelIds' # tunnelIds =>
          \E x \in Proms :
            /\ Prom(x).pc \in FirstTry \cup SecondTry
            /\ Lives(x) /\ creq'[x[1]].proms[x[2]].pc = "add"
            /\ creq'[x[1]].proms[x[2]].num = tunnelIds']_vars

\* C39 witness: a promise has found the inactive tunnel, its tunnel is
\* created on the reactivated document, and another promise, which found no
\* inactive tunnel, has its number from the counter
C39_Witness ==
  \E x, y \in Proms :
    /\ Prom(x).via = "reuse" /\ Prom(x).pc = "resolved"
    /\ \E i \in TunnelIdxs :
         tunnels[i].isActive /\ tunnels[i].num = Prom(x).num
    /\ Prom(y).via = "counter1" /\ Prom(y).pc = "resolved"

\* The queueModifyDeviceJob of request p runs in this step, and the request
\* changes the DHCP setting of the assigned WAN interface, on which tunnel i
\* lies, from not 'yes' to 'yes'
TurnsDhcpOn(p, i) ==
  /\ puts[p].pc = "queue" /\ puts'[p].pc # "queue"
  /\ tunnels[i].isActive
  /\ puts[p].dev \in {tunnels[i].deviceA, tunnels[i].deviceB}
  /\ puts[p].orig.wan.isAssigned /\ puts[p].upd.wan.isAssigned
  /\ puts[p].orig.wan.dhcp # "yes" /\ puts[p].upd.wan.dhcp = "yes"

\* Tunnel i is neither torn down nor scheduled for rebuild in this step
LeftAlone(i) ==
  /\ NewTeardowns(tunnels[i].num) = {} /\ NewRebuilds(tunnels[i].num) = {}
  /\ tunnels'[i] = tunnels[i]
  /\ \A j \in NewJobs : jobs'[j].method = "modify" => i \notin jobs'[j].tunnels

====
